---------------------------- MODULE Spec2Model ----------------------------
(***************************************************************************)
(* A model of torch/jit/__init__.py: the tracing-and-scripting frontend.   *)
(*                                                                         *)
(* The module is organised by component, each with its own specification   *)
(* over the shared variables (a component's steps leave the variables of   *)
(* the other components unchanged):                                        *)
(*   SpecCapture   - LegacyTracedModule.forward and the tracer primitives  *)
(*   SpecTraced    - TracedModule.__init__ over a tree of modules          *)
(*   SpecConst     - ScriptModule.__setattr__ and _get_valid_constant      *)
(*   SpecModules   - OrderedModuleDict, the submodule view                 *)
(*   SpecVerify    - _check_trace, the check of a trace on held-out inputs *)
(*   SpecFlatten   - _flatten/_unflatten on the inputs of a traced call    *)
(*   SpecTraceFn   - trace of a function, and calls of the result          *)
(*   SpecScript    - ScriptMeta: the wrapped initializers of a chain       *)
(*   SpecViews     - the parameter, buffer and submodule views             *)
(*   SpecTraceCall - trace of a module tree: construction, capture         *)
(*   SpecClassDef  - ScriptMeta: the constant names of a class             *)
(*   SpecBuiltin   - the table of builtin operators                        *)
(*   SpecScope     - scope: the context manager that names captured ops    *)
(*   SpecStubs     - ScriptMeta: the stubs of a class and its instances    *)
(*   SpecBuiltinThreads - the table of builtin operators, used by threads  *)
(*   SpecCheckLoop - trace and _check_trace: the re-captures of a check    *)
(*   SpecFreeze    - TracedModule.__setattr__ and _freeze                  *)
(*   SpecDisable   - _disable_tracing: the suspension of a capture         *)
(*   SpecUnique    - _unique_state_dict: the module state of a capture     *)
(***************************************************************************)
EXTENDS Integers, Sequences, FiniteSets, TLC

(***************************************************************************)
(* Bounds of the model.                                                    *)
(***************************************************************************)
\* sessions that may be begun in one run (caps the session-id counter)
MaxSessions == 3
\* nesting depth of calls of the capture entry point within traced bodies
MaxDepth == 2

\* tensors that the parameters and buffers of a module tree may refer to
NumTensors == 2
\* parameter and buffer entries of a module tree
MaxEntries == 2

\* items of a tuple or list that is assigned to an attribute
MaxItems == 2

\* submodule objects of each sort (compiled, Python-only)
NumObjects == 2

\* nodes of a graph
MaxNodes == 2

\* tensors a callable returns
MaxOuts == 1

\* held-out input sets given to the check
MaxCheckInputs == 2

\* execution contexts (threads); the tracing state is kept per context
Contexts == {"t1", "t2"}

\* items of one tuple or list among the arguments of a traced call
MaxWidth == 2

\* operations of a function that is traced
MaxOps == 2

\* user classes of a chain below ScriptModule
NumClasses == 2
\* calls of the base initializer within one user initializer
MaxSuperCalls == 2

\* classes that are derived from ScriptModule, directly or not
MaxDefs == 3

\* callables the program looks up or registers as builtins
NumCallables == 3

\* with-blocks of scope that are nested in one another
MaxScopeNesting == 2

\* sessions that begin while scopes are used
MaxScopeSessions == 2

\* instances that are constructed of the classes with script methods
MaxInstances == 2

\* calls of trace that may be in progress at once (caps the call stack)
MaxTraceDepth == 3

\* with-blocks of _disable_tracing that may be nested in one another
MaxDisableNesting == 2

\* entries of a state dictionary
MaxStateEntries == 3
\* tensors that the entries of a state dictionary refer to
MaxStateTensors == 2

VARIABLES
    \* ---- capture session manager
    tracing_state,  \* per context: NoSession, or the id of the session that is Capturing
    next_session,   \* the id the next begun session gets
    live,           \* per context: ids of sessions begun and neither committed nor abandoned
    stack,          \* per context: the frames of LegacyTracedModule.forward in progress
    last_call,      \* per context: how the most recently finished forward call ended
    \* ---- conversion of a module tree into a traced module
    tm_orig,        \* the module tree handed to TracedModule (orig)
    tm_result,      \* what the latest construction from tm_orig did
    tm_prev,        \* what the construction before it did
    tm_leftover,    \* the identity set the latest construction ended with
    \* ---- attributes of a ScriptModule instance
    cs_input,       \* the value the user assigns in this run
    cs_attrs,       \* attribute name -> stored value (Unset when there is none)
    cs_first,       \* constant name -> the value its first successful assignment stored
    cs_failed,      \* constant names an assignment to which failed as InvalidConstant
    cs_last,        \* the latest assignment and how it ended
    \* ---- the submodule view of a ScriptModule
    md_python,      \* OrderedModuleDict._python_modules: the entries in order
    md_native,      \* the submodules registered in the owner's native storage
    md_alive,       \* whether the owning module still exists (module_ref() is not None)
    md_registered,  \* name -> the object a successful registration put there
    md_last,        \* the latest operation on the view and how it ended
    \* ---- the check of a trace (_check_trace)
    vf_module,      \* module.graph, the graph of the trace under check
    vf_remaining,   \* the input sets of check_inputs the loop has yet to finish
    vf_pc,          \* the statement of the loop body that runs next
    vf_check,       \* check_mod.graph, the graph of the re-trace
    vf_traced_outs, \* traced_outs
    vf_fn_outs,     \* fn_outs
    vf_check_outs,  \* check_outs
    vf_result,      \* how the check ended
    \* ---- the value flattener on the inputs of LegacyTracedModule.forward
    fl_args,        \* args, the tuple of arguments of the call
    fl_state,       \* module_state, the tensors of the module's state
    fl_pc,          \* the statement of forward that runs next
    fl_in_vars,     \* in_vars, the leaf sequence of args
    fl_in_desc,     \* in_desc, the descriptor of args
    fl_all_inputs,  \* all_trace_inputs, what _tracer_enter returned
    fl_trace_inputs,\* trace_inputs, what _unflatten rebuilt
    \* ---- trace(func, example_inputs) and the calls of what it returns
    tf_func,        \* func, the operations the Python function performs
    tf_example,     \* example_inputs
    tf_check,       \* check_trace and check_inputs
    tf_enabled,     \* _enabled
    tf_global,      \* a global variable that func may read
    tf_artifact,    \* what trace returned
    tf_last,        \* the latest call of the artifact beside a direct call of func
    \* ---- ScriptMeta: construction of an instance of a class of a chain
    sc_classes,     \* class -> whether it defines __init__, how often that calls
                    \* the base initializer, and the script methods it declares
    sc_type,        \* type(self), the class that is instantiated
    sc_stack,       \* the calls of init_then_register in progress, innermost last
    sc_log,         \* what has happened to the instance, in order
    sc_methods,     \* method name -> the stub the instance's method was compiled from
    \* ---- the three views of one ScriptModule
    vw_python,      \* _modules._python_modules: the entries in order
    vw_modules,     \* the submodules in the owner's native storage
    vw_params,      \* the parameters and buffers in the owner's native storage
    vw_alive,       \* whether the owning module still exists
    vw_via,         \* name -> the view and the tensor of its latest registration
    vw_last,        \* the latest operation on a view and how it ended
    \* ---- trace(func, example_inputs) of a module tree
    tc_pc,          \* the statement of trace that runs next
    tc_error,       \* the exception that left trace
    tc_sessions,    \* the capture sessions that were begun for this call
    \* ---- ScriptMeta: the classes defined so far
    cd_classes,     \* class -> its bases, its __constants__, its MRO and _constants_set
    \* ---- the builtin table
    bt_table,       \* _builtin_table: None, or id(callable) -> operator name
    bt_ever,        \* the identities that have been in the table at some time
    bt_explicit,    \* id(callable) -> the name its latest _register_builtin gave
    bt_first,       \* the operation that found _builtin_table to be None
    bt_last,        \* the latest lookup or registration
    \* ---- scope(scope_name), the context manager
    sp_tracing,     \* torch._C._get_tracing_state(): NoSession, or the session
    sp_next,        \* the id the next begun session gets
    sp_scopes,      \* session -> its stack of open scopes, innermost last
    sp_frames,      \* the with-blocks of scope in progress, innermost last
    sp_last,        \* the latest with-block that was left
    \* ---- ScriptMeta: the script methods of classes and of their instances
    sq_classes,     \* the classes defined: attributes left, and the list `methods`
    sq_instances,   \* the instances constructed: class, and table of methods
    sq_compiles,    \* class -> stub name -> how often the stub was compiled
    \* ---- the table of builtin operators under threads
    br_global,      \* _builtin_table: 0 for None, or the dict it refers to
    br_dicts,       \* the dicts that have been made: id(callable) -> name
    br_pc,          \* thread -> where it is in _find_builtin / _register_builtin
    br_call,        \* thread -> the call it is in
    br_idx,         \* thread -> the namespace it calls register_all on next
    br_ref,         \* thread -> the dict _get_builtin_table returned to it
    br_pops,        \* how often `_builtin_table = {}` has run
    br_solo,        \* no call has begun beside another before population ended
    br_missed,      \* a lookup of a trusted callable has returned not-found
    \* ---- trace and _check_trace: the calls of trace that a check makes
    cl_args,        \* check_trace and check_inputs of the call of the program
    cl_stack,       \* the calls of trace in progress, innermost last
    cl_recaptures,  \* how often _check_trace has called trace
    cl_examined,    \* the input sets whose outputs have been compared, in order
    cl_result,      \* what the call of the program ended with
    \* ---- TracedModule.__setattr__: the freeze of a traced module
    fz_mod,         \* the traced module: __frozen, __dict__ and _modules
    fz_pc,          \* where TracedModule.__init__ is, or how it ended
    fz_last,        \* the latest assignment to an attribute of the module
    \* ---- _disable_tracing: the context manager that suspends a capture
    dt_state,       \* the tracing state: 0 for None, or a session
    dt_saved,       \* context object -> its attribute state (0 for None)
    dt_frames,      \* the with-blocks in progress, innermost last
    dt_last,        \* the with-block that was left last
    \* ---- _unique_state_dict: the state of a module without repeated tensors
    us_dict,        \* module.state_dict(): entries of name and tensor identity
    us_filtered,    \* the dictionary that _unique_state_dict returned
    us_state,       \* module_state, the list of its values
    us_pc           \* "start", "filtered" or "listed"

capture_vars == <<tracing_state, next_session, live, stack, last_call>>

traced_vars == <<tm_orig, tm_result, tm_prev, tm_leftover>>

const_vars == <<cs_input, cs_attrs, cs_first, cs_failed, cs_last>>

modules_vars == <<md_python, md_native, md_alive, md_registered, md_last>>

verify_vars == <<vf_module, vf_remaining, vf_pc, vf_check, vf_traced_outs,
                 vf_fn_outs, vf_check_outs, vf_result>>

flatten_vars == <<fl_args, fl_state, fl_pc, fl_in_vars, fl_in_desc,
                  fl_all_inputs, fl_trace_inputs>>

tracefn_vars == <<tf_func, tf_example, tf_check, tf_enabled, tf_global,
                  tf_artifact, tf_last>>

script_vars == <<sc_classes, sc_type, sc_stack, sc_log, sc_methods>>

views_vars == <<vw_python, vw_modules, vw_params, vw_alive, vw_via, vw_last>>

tracecall_vars == <<tc_pc, tc_error, tc_sessions>>

classdef_vars == <<cd_classes>>

builtin_vars == <<bt_table, bt_ever, bt_explicit, bt_first, bt_last>>

scope_vars == <<sp_tracing, sp_next, sp_scopes, sp_frames, sp_last>>

stubs_vars == <<sq_classes, sq_instances, sq_compiles>>

race_vars == <<br_global, br_dicts, br_pc, br_call, br_idx, br_ref, br_pops,
               br_solo, br_missed>>

checkloop_vars == <<cl_args, cl_stack, cl_recaptures, cl_examined, cl_result>>

freeze_vars == <<fz_mod, fz_pc, fz_last>>

disable_vars == <<dt_state, dt_saved, dt_frames, dt_last>>

unique_vars == <<us_dict, us_filtered, us_state, us_pc>>

vars == <<capture_vars, traced_vars, const_vars, modules_vars, verify_vars,
          flatten_vars, views_vars, tracefn_vars, script_vars, builtin_vars,
          tracecall_vars, classdef_vars, scope_vars, stubs_vars, race_vars,
          checkloop_vars, freeze_vars, disable_vars, unique_vars>>

\* what the steps of one component leave alone
not_capture == <<traced_vars, const_vars, modules_vars, verify_vars,
                 flatten_vars, views_vars, tracefn_vars, script_vars,
                 builtin_vars, tracecall_vars, classdef_vars, scope_vars,
                 stubs_vars, race_vars, checkloop_vars, freeze_vars,
                 disable_vars, unique_vars>>
not_traced == <<capture_vars, const_vars, modules_vars, verify_vars,
                flatten_vars, views_vars, tracefn_vars, script_vars,
                builtin_vars, tracecall_vars, classdef_vars, scope_vars,
                stubs_vars, race_vars, checkloop_vars, freeze_vars,
                disable_vars, unique_vars>>
not_const == <<capture_vars, traced_vars, modules_vars, verify_vars,
               flatten_vars, views_vars, tracefn_vars, script_vars,
               builtin_vars, tracecall_vars, classdef_vars, scope_vars,
               stubs_vars, race_vars, checkloop_vars, freeze_vars,
               disable_vars, unique_vars>>
not_modules == <<capture_vars, traced_vars, const_vars, verify_vars,
                 flatten_vars, views_vars, tracefn_vars, script_vars,
                 builtin_vars, tracecall_vars, classdef_vars, scope_vars,
                 stubs_vars, race_vars, checkloop_vars, freeze_vars,
                 disable_vars, unique_vars>>
not_views == <<capture_vars, traced_vars, const_vars, modules_vars,
               verify_vars, flatten_vars, tracefn_vars, script_vars,
               builtin_vars, tracecall_vars, classdef_vars, scope_vars,
               stubs_vars, race_vars, checkloop_vars, freeze_vars,
               disable_vars, unique_vars>>
not_verify == <<capture_vars, traced_vars, const_vars, modules_vars,
                flatten_vars, views_vars, tracefn_vars, script_vars,
                builtin_vars, tracecall_vars, classdef_vars, scope_vars,
                stubs_vars, race_vars, checkloop_vars, freeze_vars,
                disable_vars, unique_vars>>
not_flatten == <<capture_vars, traced_vars, const_vars, modules_vars,
                 verify_vars, views_vars, tracefn_vars, script_vars,
                 builtin_vars, tracecall_vars, classdef_vars, scope_vars,
                 stubs_vars, race_vars, checkloop_vars, freeze_vars,
                 disable_vars, unique_vars>>
not_tracefn == <<capture_vars, traced_vars, const_vars, modules_vars,
                 verify_vars, flatten_vars, views_vars, script_vars,
                 builtin_vars, tracecall_vars, classdef_vars, scope_vars,
                 stubs_vars, race_vars, checkloop_vars, freeze_vars,
                 disable_vars, unique_vars>>
not_script == <<capture_vars, traced_vars, const_vars, modules_vars,
                verify_vars, flatten_vars, views_vars, tracefn_vars,
                builtin_vars, tracecall_vars, classdef_vars, scope_vars,
                stubs_vars, race_vars, checkloop_vars, freeze_vars,
                disable_vars, unique_vars>>
not_builtin == <<capture_vars, traced_vars, const_vars, modules_vars,
                 verify_vars, flatten_vars, views_vars, tracefn_vars,
                 script_vars, tracecall_vars, classdef_vars, scope_vars,
                 stubs_vars, race_vars, checkloop_vars, freeze_vars,
                 disable_vars, unique_vars>>
not_tracecall == <<const_vars, modules_vars, verify_vars, flatten_vars,
                   views_vars, tracefn_vars, script_vars, builtin_vars,
                   classdef_vars, scope_vars, stubs_vars, race_vars,
                   checkloop_vars, freeze_vars, disable_vars, unique_vars>>
not_classdef == <<capture_vars, traced_vars, const_vars, modules_vars,
                  verify_vars, flatten_vars, views_vars, tracefn_vars,
                  script_vars, builtin_vars, tracecall_vars, scope_vars,
                  stubs_vars, race_vars, checkloop_vars, freeze_vars,
                  disable_vars, unique_vars>>
not_scope == <<capture_vars, traced_vars, const_vars, modules_vars,
               verify_vars, flatten_vars, views_vars, tracefn_vars,
               script_vars, builtin_vars, tracecall_vars, classdef_vars,
               stubs_vars, race_vars, checkloop_vars, freeze_vars,
               disable_vars, unique_vars>>
not_stubs == <<capture_vars, traced_vars, const_vars, modules_vars,
               verify_vars, flatten_vars, views_vars, tracefn_vars,
               script_vars, builtin_vars, tracecall_vars, classdef_vars,
               scope_vars, race_vars, checkloop_vars, freeze_vars,
               disable_vars, unique_vars>>
not_race == <<capture_vars, traced_vars, const_vars, modules_vars,
              verify_vars, flatten_vars, views_vars, tracefn_vars,
              script_vars, builtin_vars, tracecall_vars, classdef_vars,
              scope_vars, stubs_vars, checkloop_vars, freeze_vars,
              disable_vars, unique_vars>>
not_checkloop == <<capture_vars, traced_vars, const_vars, modules_vars,
                   verify_vars, flatten_vars, views_vars, tracefn_vars,
                   script_vars, builtin_vars, tracecall_vars, classdef_vars,
                   scope_vars, stubs_vars, race_vars, freeze_vars,
                   disable_vars, unique_vars>>
not_freeze == <<capture_vars, traced_vars, const_vars, modules_vars,
                verify_vars, flatten_vars, views_vars, tracefn_vars,
                script_vars, builtin_vars, tracecall_vars, classdef_vars,
                scope_vars, stubs_vars, race_vars, checkloop_vars,
                disable_vars, unique_vars>>
not_disable == <<capture_vars, traced_vars, const_vars, modules_vars,
                 verify_vars, flatten_vars, views_vars, tracefn_vars,
                 script_vars, builtin_vars, tracecall_vars, classdef_vars,
                 scope_vars, stubs_vars, race_vars, checkloop_vars,
                 freeze_vars, unique_vars>>
not_unique == <<capture_vars, traced_vars, const_vars, modules_vars,
                verify_vars, flatten_vars, views_vars, tracefn_vars,
                script_vars, builtin_vars, tracecall_vars, classdef_vars,
                scope_vars, stubs_vars, race_vars, checkloop_vars,
                freeze_vars, disable_vars>>

(***************************************************************************)
(* Capture Session Manager                                                 *)
(***************************************************************************)
\* torch._C._get_tracing_state() is None
NoSession == 0

\* exceptions that derive from Exception, and one that derives from
\* BaseException only (KeyboardInterrupt, SystemExit, GeneratorExit)
ExceptionKinds == {"ReentrantCapture", "BodyError", "TypeError", "ExitError"}
BaseOnlyKinds == {"KeyboardInterrupt"}

\* what `except Exception:` matches
IsException(k) == k \in ExceptionKinds

\* what the traced body (self.inner) may raise by itself
BodyRaises == {"BodyError", "KeyboardInterrupt"}

\* a tracing state that is one for the whole process: what any context that
\* is Capturing has set
ProcessTracingState(ts, t) ==
    IF \E u \in Contexts : ts[u] # NoSession
      THEN ts[CHOOSE u \in Contexts : ts[u] # NoSession]
      ELSE NoSession

\* torch._C._get_tracing_state(): the tracing state is thread-local, a
\* context sees the session it has begun itself and no other
GetTracingState(ts, t) == ts[t]

\* torch._C._tracer_enter: fails when a session is Capturing, else begins one
TracerEnter(st, fresh) ==
    IF st # NoSession
      THEN [ok |-> FALSE, state |-> st]
      ELSE [ok |-> TRUE, state |-> fresh]

\* torch._C._tracer_exit: finalizes the graph, the context is Idle again
TracerExit(st) == NoSession

\* a variant of TracerExitRaises in which the graph is finalized before the
\* error is raised
TracerExitRaisesFinalized(st) == NoSession

\* torch._C._tracer_exit raises: the outputs are not accepted as sinks of
\* the graph, nothing is finalized and the session is Capturing still
TracerExitRaises(st) == st

\* a variant of TracerAbandon that leaves the session in place
TracerAbandonKeepsSession(st) == st

\* torch._C._tracer_abandon: discards the session, the context is Idle again
TracerAbandon(st) == NoSession

\* the record of a finished call of forward: whether its begin succeeded, the
\* tracing state it found (pre), what was raised in it and what left it (exc)
NoCall ==
    [result |-> "none", began |-> FALSE, sid |-> NoSession, pre |-> NoSession,
     exc |-> "none", raised |-> "none", abandoned |-> FALSE, committed |-> FALSE,
     after_abandon |-> FALSE]

Ended(f, result, exc) ==
    [NoCall EXCEPT !.result = result, !.began = f.began, !.sid = f.sid,
                   !.pre = f.pre, !.exc = exc, !.raised = f.exc,
                   !.after_abandon = f.after_abandon]

\* a frame of forward; `after_abandon` notes that the call directly follows,
\* in its context, a call that ended in abandon()
NewFrame(st, after) ==
    [pc |-> "enter", began |-> FALSE, sid |-> NoSession, pre |-> st,
     exc |-> "none", pending |-> "none", after_abandon |-> after]

Top(t) == stack[t][Len(stack[t])]

Pop(t) == SubSeq(stack[t], 1, Len(stack[t]) - 1)

SetTop(t, f) == [stack EXCEPT ![t] = Pop(t) \o <<f>>]

\* the frame on top ends; an exception it raises reaches the caller's body
Deliver(t, exc) ==
    IF Len(stack[t]) > 1 /\ exc # "none"
      THEN [stack EXCEPT ![t] =
              SubSeq(Pop(t), 1, Len(stack[t]) - 2)
                \o <<[stack[t][Len(stack[t]) - 1] EXCEPT !.pending = exc]>>]
      ELSE [stack EXCEPT ![t] = Pop(t)]

CaptureInit ==
    /\ tracing_state = [t \in Contexts |-> NoSession]
    /\ next_session = 1
    /\ live = [t \in Contexts |-> {}]
    /\ stack = [t \in Contexts |-> <<>>]
    /\ last_call = [t \in Contexts |-> NoCall]

\* get_trace_graph / LegacyTracedModule.__call__: forward is called, at top
\* level or from within a traced body
Call(t) ==
    /\ UNCHANGED not_capture
    /\ Len(stack[t]) < MaxDepth
    /\ next_session <= MaxSessions
    /\ \/ stack[t] = <<>>
       \/ /\ stack[t] # <<>>
          /\ Top(t).pc = "body"
          /\ Top(t).pending = "none"
    /\ stack' = [stack EXCEPT ![t] =
                    @ \o <<NewFrame(tracing_state[t], last_call[t].abandoned)>>]
    /\ last_call' = [last_call EXCEPT ![t] = NoCall]
    /\ UNCHANGED <<tracing_state, next_session, live>>

\* a variant of ForwardEnter with _tracer_enter moved inside the try block, so
\* that a failed begin runs the handler
ForwardEnterInsideTry(t) ==
    /\ UNCHANGED not_capture
    /\ stack[t] # <<>>
    /\ Top(t).pc = "enter"
    /\ LET r == TracerEnter(GetTracingState(tracing_state, t), next_session) IN
         IF r.ok
           THEN /\ tracing_state' = [tracing_state EXCEPT ![t] = r.state]
                /\ next_session' = next_session + 1
                /\ live' = [live EXCEPT ![t] = @ \cup {r.state}]
                /\ stack' = SetTop(t, [Top(t) EXCEPT !.pc = "body", !.began = TRUE,
                                                     !.sid = r.state])
                /\ UNCHANGED last_call
           ELSE /\ stack' = SetTop(t, [Top(t) EXCEPT !.pc = "handler",
                                                     !.exc = "ReentrantCapture"])
                /\ UNCHANGED <<tracing_state, next_session, live, last_call>>

\* line 121: trace, all_trace_inputs = torch._C._tracer_enter(...), before the try
ForwardEnter(t) ==
    /\ UNCHANGED not_capture
    /\ stack[t] # <<>>
    /\ Top(t).pc = "enter"
    /\ LET r == TracerEnter(GetTracingState(tracing_state, t), next_session) IN
         IF r.ok
           THEN /\ tracing_state' = [tracing_state EXCEPT ![t] = r.state]
                /\ next_session' = next_session + 1
                /\ live' = [live EXCEPT ![t] = @ \cup {r.state}]
                /\ stack' = SetTop(t, [Top(t) EXCEPT !.pc = "body", !.began = TRUE,
                                                     !.sid = r.state])
                /\ UNCHANGED last_call
           ELSE /\ stack' = Deliver(t, "ReentrantCapture")
                /\ last_call' = [last_call EXCEPT ![t] =
                       Ended([Top(t) EXCEPT !.exc = "ReentrantCapture"],
                             "raised", "ReentrantCapture")]
                /\ UNCHANGED <<tracing_state, next_session, live>>

\* an exception k is raised inside the try block of forward: `except Exception`
\* takes it when it derives from Exception, otherwise it leaves forward at once
RaiseInTry(t, k) ==
    IF IsException(k)
      THEN /\ stack' = SetTop(t, [Top(t) EXCEPT !.pc = "handler", !.exc = k,
                                                !.pending = "none"])
           /\ UNCHANGED <<tracing_state, next_session, live, last_call>>
      ELSE /\ stack' = Deliver(t, k)
           /\ last_call' = [last_call EXCEPT ![t] =
                  Ended([Top(t) EXCEPT !.exc = k], "raised", k)]
           /\ UNCHANGED <<tracing_state, next_session, live>>

\* line 124: self.inner(*trace_inputs) raises
BodyRaise(t) ==
    /\ UNCHANGED not_capture
    /\ stack[t] # <<>>
    /\ Top(t).pc = "body"
    /\ Top(t).pending = "none"
    /\ \E k \in BodyRaises : RaiseInTry(t, k)

\* line 124: the body does not handle the exception of a nested forward call
BodyPropagate(t) ==
    /\ UNCHANGED not_capture
    /\ stack[t] # <<>>
    /\ Top(t).pc = "body"
    /\ Top(t).pending # "none"
    /\ RaiseInTry(t, Top(t).pending)

\* line 124: the body handles the exception of a nested forward call itself
BodySwallow(t) ==
    /\ UNCHANGED not_capture
    /\ stack[t] # <<>>
    /\ Top(t).pc = "body"
    /\ Top(t).pending # "none"
    /\ stack' = SetTop(t, [Top(t) EXCEPT !.pending = "none"])
    /\ UNCHANGED <<tracing_state, next_session, live, last_call>>

\* line 124: out = self.inner(*trace_inputs) returns
BodyReturn(t) ==
    /\ UNCHANGED not_capture
    /\ stack[t] # <<>>
    /\ Top(t).pc = "body"
    /\ Top(t).pending = "none"
    /\ stack' = SetTop(t, [Top(t) EXCEPT !.pc = "flatten_out"])
    /\ UNCHANGED <<tracing_state, next_session, live, last_call>>

\* line 125: out_vars, _ = _flatten(out); an unsupported kind of value raises
ForwardFlattenOut(t) ==
    /\ UNCHANGED not_capture
    /\ stack[t] # <<>>
    /\ Top(t).pc = "flatten_out"
    /\ \/ /\ stack' = SetTop(t, [Top(t) EXCEPT !.pc = "exit"])
          /\ UNCHANGED <<tracing_state, next_session, live, last_call>>
       \/ RaiseInTry(t, "TypeError")

\* line 126 and 130: torch._C._tracer_exit(tuple(out_vars)); return trace, out
ForwardExit(t) ==
    /\ UNCHANGED not_capture
    /\ stack[t] # <<>>
    /\ Top(t).pc = "exit"
    /\ \/ /\ tracing_state' = [tracing_state EXCEPT ![t] = TracerExit(@)]
          /\ live' = [live EXCEPT ![t] = @ \ {tracing_state[t]}]
          /\ stack' = Deliver(t, "none")
          /\ last_call' = [last_call EXCEPT ![t] =
                 [Ended(Top(t), "returned", "none") EXCEPT !.committed = TRUE]]
          /\ UNCHANGED next_session
       \/ /\ tracing_state' = [tracing_state EXCEPT ![t] = TracerExitRaises(@)]
          /\ live' = [live EXCEPT ![t] =
                         IF TracerExitRaises(tracing_state[t]) = NoSession
                           THEN @ \ {tracing_state[t]} ELSE @]
          /\ stack' = SetTop(t, [Top(t) EXCEPT !.pc = "handler",
                                               !.exc = "ExitError",
                                               !.pending = "none"])
          /\ UNCHANGED <<next_session, last_call>>

\* lines 127-129: except Exception: torch._C._tracer_abandon(); raise
ForwardExcept(t) ==
    /\ UNCHANGED not_capture
    /\ stack[t] # <<>>
    /\ Top(t).pc = "handler"
    /\ tracing_state' = [tracing_state EXCEPT ![t] = TracerAbandon(@)]
    /\ live' = [live EXCEPT ![t] = @ \ {tracing_state[t]}]
    /\ stack' = Deliver(t, Top(t).exc)
    /\ last_call' = [last_call EXCEPT ![t] =
           [Ended(Top(t), "raised", Top(t).exc) EXCEPT !.abandoned = TRUE]]
    /\ UNCHANGED next_session

CaptureNext ==
    \E t \in Contexts :
       \/ Call(t)
       \/ ForwardEnter(t)
       \/ BodyRaise(t)
       \/ BodyPropagate(t)
       \/ BodySwallow(t)
       \/ BodyReturn(t)
       \/ ForwardFlattenOut(t)
       \/ ForwardExit(t)
       \/ ForwardExcept(t)

(***************************************************************************)
(* TracedModule: conversion of a module tree                               *)
(***************************************************************************)
\* a parameter or buffer slot that holds None
NoTensor == 0

Tensors == 1..NumTensors

\* the modules of the tree handed to trace(); "root" is the traced module itself
Modules == {"root", "a", "b"}

\* orig._modules of every module: a chain, two children, and one module
\* registered under two names
Shapes ==
    { [root |-> <<"a">>, a |-> <<"b">>, b |-> <<>>],
      [root |-> <<"a", "b">>, a |-> <<>>, b |-> <<>>],
      [root |-> <<"a", "a">>, a |-> <<"b">>, b |-> <<>>] }

\* one entry of some module's _parameters or _buffers, in registration order
Entries == [mod : Modules, buffer : BOOLEAN, tensor : {NoTensor} \cup Tensors]

EntrySeqs == UNION {[1..n -> Entries] : n \in 0..MaxEntries}

RECURSIVE TensorsOf(_, _, _, _)
TensorsOf(es, i, mod, buffer) ==
    IF i > Len(es) THEN <<>>
    ELSE IF es[i].mod = mod /\ es[i].buffer = buffer
      THEN <<es[i].tensor>> \o TensorsOf(es, i + 1, mod, buffer)
      ELSE TensorsOf(es, i + 1, mod, buffer)

\* orig._parameters.items() and orig._buffers.items() (the values, in order)
OrigParameters(o, mod) == TensorsOf(o.entries, 1, mod, FALSE)
OrigBuffers(o, mod) == TensorsOf(o.entries, 1, mod, TRUE)

\* lines 898-899: if id_set is None: id_set = set()
FreshIdSet(leftover) == {}

\* a variant of check_unique that forgets id_set.add(param)
CheckUniqueNoAdd(param, st) ==
    IF param \in st.ids
      THEN [st EXCEPT !.err = "AliasingViolation"]
      ELSE st

\* lines 907-910: check_unique
CheckUnique(param, st) ==
    IF param \in st.ids
      THEN [st EXCEPT !.err = "AliasingViolation"]
      ELSE [st EXCEPT !.ids = @ \cup {param}]

\* a variant of SetEntry that stores every entry in self._parameters
SetEntryAsParameter(st, mod, buffer, name, tensor) ==
    [st EXCEPT !.regs = Append(@, [mod |-> mod, buffer |-> FALSE,
                                   name |-> name, tensor |-> tensor])]

\* lines 916 and 920: self._parameters[name] = param, self._buffers[name] = buf;
\* the name of an entry is its place among the keys of the dict of orig
SetEntry(st, mod, buffer, name, tensor) ==
    [st EXCEPT !.regs = Append(@, [mod |-> mod, buffer |-> buffer,
                                   name |-> name, tensor |-> tensor])]

\* lines 914-921: the two loops; an entry is registered, then checked
RECURSIVE RegisterAll(_, _, _, _, _)
RegisterAll(ts, i, mod, buffer, st) ==
    IF i > Len(ts) \/ st.err # "none" THEN st
    ELSE IF ts[i] = NoTensor THEN RegisterAll(ts, i + 1, mod, buffer, st)
    ELSE RegisterAll(ts, i + 1, mod, buffer,
            CheckUnique(ts[i], SetEntry(st, mod, buffer, i, ts[i])))

\* lines 895-929: TracedModule.__init__(orig, id_set), st carrying id_set
RECURSIVE TracedModuleInit(_, _, _)
RECURSIVE TracedSubmodules(_, _, _, _)
TracedModuleInit(o, mod, st) ==
    LET s1 == RegisterAll(OrigParameters(o, mod), 1, mod, FALSE, st)
        s2 == RegisterAll(OrigBuffers(o, mod), 1, mod, TRUE, s1)
        s3 == IF s2.err = "none" /\ mod \in o.hooks
                THEN [s2 EXCEPT !.err = "HookedModuleUnsupported"]
                ELSE s2
    IN  TracedSubmodules(o, mod, 1, s3)

\* lines 926-927: for name, submodule in orig._modules.items():
\* self._modules[name] = TracedModule(submodule, id_set, ...); the name of
\* a submodule is its place among the keys of orig._modules
TracedSubmodules(o, mod, i, st) ==
    IF i > Len(o.children[mod]) \/ st.err # "none" THEN st
    ELSE LET r == TracedModuleInit(o, o.children[mod][i], st)
         IN  TracedSubmodules(o, mod, i + 1,
                IF r.err # "none" THEN r
                ELSE [r EXCEPT !.subs = Append(@, [mod |-> mod, name |-> i,
                                                   orig |-> o.children[mod][i]])])

NoConstruction ==
    [done |-> FALSE, err |-> "none", ids |-> {}, regs |-> <<>>, subs |-> <<>>]

TracedIdle ==
    /\ tm_result = NoConstruction
    /\ tm_prev = NoConstruction
    /\ tm_leftover = {}

TracedInit ==
    /\ tm_orig \in [children : Shapes, entries : EntrySeqs,
                    hooks : {{}} \cup {{mod} : mod \in Modules}]
    /\ TracedIdle

\* line 486: module = TopLevelTracedModule(func, **executor_options)
Construct ==
    /\ LET r == TracedModuleInit(tm_orig, "root",
                   [NoConstruction EXCEPT !.done = TRUE,
                                          !.ids = FreshIdSet(tm_leftover)])
       IN /\ tm_result' = r
          /\ tm_leftover' = r.ids
    /\ tm_prev' = tm_result
    /\ UNCHANGED tm_orig
    /\ UNCHANGED not_traced

TracedNext == Construct

(***************************************************************************)
(* ScriptModule attributes and constants                                   *)
(***************************************************************************)
\* line 746: _constant_types, by name
ConstantTypes == {"bool", "float", "int", "function", "device", "layout", "dtype"}

\* kinds of values that are none of the above and no container
OtherScalarKinds == {"str", "NoneType", "Tensor"}

\* torch.nn.ModuleList and torch.nn.Sequential
ModuleKinds == {"ModuleList", "Sequential"}

\* a value is its kind and, for a tuple or a list, its items
Atom(k) == [kind |-> k, items |-> <<>>]

Container(k, items) == [kind |-> k, items |-> items]

Unset == Atom("unset")

ItemAtoms == {Atom("int"), Atom("str")}

\* tuples and lists of scalars
Level1 ==
    {Container(k, items) :
        k \in {"tuple", "list"},
        items \in UNION {[1..n -> ItemAtoms] : n \in 0..MaxItems}}

\* tuples and lists that hold a tuple or a list
Level2 ==
    {Container(k, <<c>>) : k \in {"tuple", "list"}, c \in Level1}
    \cup {Container(k, <<Atom("int"), c>>) : k \in {"tuple", "list"}, c \in Level1}

Values ==
    {Atom(k) : k \in ConstantTypes \cup OtherScalarKinds \cup ModuleKinds}
    \cup Level1 \cup Level2

\* the attributes of the instance; "c" and "d" are in cls._constants_set
AttrNames == {"c", "d", "x"}
ConstantsSet == {"c", "d"}

\* lines 754-760: what the TypeError of _get_valid_constant names
NamedInMessage == {"ModuleList"} \cup ConstantTypes \cup {"list", "tuple"}

\* a variant of _get_valid_constant that does not look into a tuple or list
GetValidConstantShallow(v) ==
    IF v.kind \in ConstantTypes \cup {"tuple", "list"}
      THEN [ok |-> TRUE, value |-> [v EXCEPT !.kind = IF @ = "list" THEN "tuple" ELSE @]]
      ELSE [ok |-> FALSE, value |-> v]

\* lines 749-760: _get_valid_constant; a list comes back as a tuple
RECURSIVE GetValidConstant(_)
GetValidConstant(v) ==
    IF v.kind \in ConstantTypes
      THEN [ok |-> TRUE, value |-> v]
    ELSE IF v.kind \in {"tuple", "list"}
      THEN LET rs == [i \in 1..Len(v.items) |-> GetValidConstant(v.items[i])]
           IN  IF \E i \in 1..Len(rs) : ~rs[i].ok
                 THEN [ok |-> FALSE, value |-> v]
                 ELSE [ok |-> TRUE,
                       value |-> Container("tuple", [i \in 1..Len(rs) |-> rs[i].value])]
    ELSE [ok |-> FALSE, value |-> v]

\* line 831: hasattr(self, attr)
HasAttr(attrs, name) == attrs[name] # Unset

IsModule(v) ==
    v.kind \in ModuleKinds \cup {"_ConstModuleList", "_ConstSequential"}

NoNamed == {}

\* torch.nn.Module.__setattr__ on a ScriptModule: a module goes to _modules
\* (OrderedModuleDict.__setitem__, which refuses a name it holds), a name
\* held by _modules takes nothing else, any other value goes to __dict__
ModuleSetattr(attrs, name, v) ==
    IF IsModule(v)
      THEN IF IsModule(attrs[name])
             THEN [outcome |-> "ReassignModule", attrs |-> attrs, named |-> NoNamed]
             ELSE [outcome |-> "ok", attrs |-> [attrs EXCEPT ![name] = v],
                   named |-> NoNamed]
    ELSE IF IsModule(attrs[name])
      THEN [outcome |-> "TypeError", attrs |-> attrs, named |-> NoNamed]
    ELSE [outcome |-> "ok", attrs |-> [attrs EXCEPT ![name] = v], named |-> NoNamed]

\* a variant of ScriptModule.__setattr__ without the hasattr test
ScriptModuleSetattrNoTest(attrs, name, v) ==
    IF name \notin ConstantsSet
      THEN ModuleSetattr(attrs, name, v)
    ELSE IF v.kind = "ModuleList"
      THEN ModuleSetattr(attrs, name, Atom("_ConstModuleList"))
    ELSE IF v.kind = "Sequential"
      THEN ModuleSetattr(attrs, name, Atom("_ConstSequential"))
    ELSE LET r == GetValidConstant(v)
         IN  IF r.ok
               THEN ModuleSetattr(attrs, name, r.value)
               ELSE [outcome |-> "InvalidConstant", attrs |-> attrs,
                     named |-> NamedInMessage]

\* lines 828-842: ScriptModule.__setattr__
ScriptModuleSetattr(attrs, name, v) ==
    IF name \notin ConstantsSet
      THEN ModuleSetattr(attrs, name, v)
    ELSE IF HasAttr(attrs, name)
      THEN [outcome |-> "ReassignConstant", attrs |-> attrs, named |-> NoNamed]
    ELSE IF v.kind = "ModuleList"
      THEN ModuleSetattr(attrs, name, Atom("_ConstModuleList"))
    ELSE IF v.kind = "Sequential"
      THEN ModuleSetattr(attrs, name, Atom("_ConstSequential"))
    ELSE LET r == GetValidConstant(v)
         IN  IF r.ok
               THEN ModuleSetattr(attrs, name, r.value)
               ELSE [outcome |-> "InvalidConstant", attrs |-> attrs,
                     named |-> NamedInMessage]

NoAssignment ==
    [name |-> "none", value |-> Unset, outcome |-> "none", had |-> FALSE,
     changed |-> FALSE, named |-> NoNamed]

ConstIdle ==
    /\ cs_attrs = [n \in AttrNames |-> Unset]
    /\ cs_first = [n \in ConstantsSet |-> Unset]
    /\ cs_failed = {}
    /\ cs_last = NoAssignment

ConstInit ==
    /\ cs_input \in Values
    /\ ConstIdle

\* self.<name> = v, with v the value of this run, an int or a str
SetAttr(name, v) ==
    /\ LET r == ScriptModuleSetattr(cs_attrs, name, v) IN
         /\ cs_attrs' = r.attrs
         /\ cs_last' = [name |-> name, value |-> v, outcome |-> r.outcome,
                        had |-> HasAttr(cs_attrs, name),
                        changed |-> r.attrs # cs_attrs, named |-> r.named]
         /\ cs_first' =
               IF name \in ConstantsSet /\ r.outcome = "ok" /\ cs_first[name] = Unset
                 THEN [cs_first EXCEPT ![name] = r.attrs[name]]
                 ELSE cs_first
         /\ cs_failed' =
               IF name \in ConstantsSet /\ r.outcome = "InvalidConstant"
                 THEN cs_failed \cup {name}
                 ELSE cs_failed
    /\ UNCHANGED cs_input
    /\ UNCHANGED not_const

ConstNext ==
    \E name \in AttrNames, v \in {cs_input, Atom("int"), Atom("str")} :
        SetAttr(name, v)

(***************************************************************************)
(* OrderedModuleDict: the submodule view                                   *)
(***************************************************************************)
\* the names under which submodules are registered
ModNames == {"m0", "m1"}

\* submodule objects: identity, and whether isinstance(v, ScriptModule)
Objects == [id : 1..NumObjects, script : BOOLEAN]

NoObject == [id |-> 0, script |-> FALSE]

\* an ordered dict is the sequence of its entries
Has(d, k) == \E i \in 1..Len(d) : d[i].k = k

Get(d, k) == d[CHOOSE i \in 1..Len(d) : d[i].k = k].v

Put(d, k, v) ==
    IF Has(d, k)
      THEN [i \in 1..Len(d) |-> IF d[i].k = k THEN [k |-> k, v |-> v] ELSE d[i]]
      ELSE Append(d, [k |-> k, v |-> v])

\* script::Module::register_module: the native table takes a name once
NativeRegisterModule(native, k, v) ==
    IF Has(native, k)
      THEN [ok |-> FALSE, native |-> native]
      ELSE [ok |-> TRUE, native |-> Put(native, k, v)]

\* a variant of __setitem__ without the test for a name that is present
ModuleDictSetItemNoTest(py, native, alive, k, v) ==
    IF v.script /\ ~alive
      THEN [outcome |-> "LifecycleViolation", py |-> py, native |-> native]
    ELSE IF v.script /\ ~NativeRegisterModule(native, k, v).ok
      THEN [outcome |-> "NativeError", py |-> py, native |-> native]
    ELSE [outcome |-> "ok", py |-> Put(py, k, v),
          native |-> IF v.script THEN NativeRegisterModule(native, k, v).native
                                 ELSE native]

\* lines 689-695: OrderedModuleDict.__setitem__; self.module (lines 642-647)
\* is looked up for a ScriptModule only
ModuleDictSetItem(py, native, alive, k, v) ==
    IF Has(py, k)
      THEN [outcome |-> "ReassignModule", py |-> py, native |-> native]
    ELSE IF v.script /\ ~alive
      THEN [outcome |-> "LifecycleViolation", py |-> py, native |-> native]
    ELSE IF v.script /\ ~NativeRegisterModule(native, k, v).ok
      THEN [outcome |-> "NativeError", py |-> py, native |-> native]
    ELSE [outcome |-> "ok", py |-> Put(py, k, v),
          native |-> IF v.script THEN NativeRegisterModule(native, k, v).native
                                 ELSE native]

\* a variant of ModuleDictSetItemNativeRaises with the statements of lines
\* 693 and 695 in the other order: the cache is written, then the native
\* registration is attempted
ModuleDictSetItemCacheFirst(py, native, alive, k, v) ==
    IF Has(py, k)
      THEN [outcome |-> "ReassignModule", py |-> py, native |-> native]
    ELSE IF v.script /\ ~alive
      THEN [outcome |-> "LifecycleViolation", py |-> Put(py, k, v), native |-> native]
    ELSE IF v.script
      THEN [outcome |-> "NativeError", py |-> Put(py, k, v), native |-> native]
    ELSE [outcome |-> "ok", py |-> Put(py, k, v), native |-> native]

\* lines 689-695: OrderedModuleDict.__setitem__ when the native
\* registration of line 693 raises for a reason of its own: the exception
\* leaves __setitem__ before line 695 has written the cache
ModuleDictSetItemNativeRaises(py, native, alive, k, v) ==
    IF Has(py, k)
      THEN [outcome |-> "ReassignModule", py |-> py, native |-> native]
    ELSE IF v.script /\ ~alive
      THEN [outcome |-> "LifecycleViolation", py |-> py, native |-> native]
    ELSE IF v.script
      THEN [outcome |-> "NativeError", py |-> py, native |-> native]
    ELSE [outcome |-> "ok", py |-> Put(py, k, v), native |-> native]

\* a variant of __getitem__ that asks the native storage for a ScriptModule
\* and so gets a new Python object for it
ModuleDictGetItemFromNative(py, k) ==
    IF ~Has(py, k)
      THEN [outcome |-> "KeyError", result |-> NoObject]
    ELSE IF Get(py, k).script
      THEN [outcome |-> "ok",
            result |-> [Get(py, k) EXCEPT !.id = @ + NumObjects]]
    ELSE [outcome |-> "ok", result |-> Get(py, k)]

\* lines 697-698: OrderedModuleDict.__getitem__
ModuleDictGetItem(py, k) ==
    IF Has(py, k)
      THEN [outcome |-> "ok", result |-> Get(py, k)]
      ELSE [outcome |-> "KeyError", result |-> NoObject]

NoOperation ==
    [op |-> "none", k |-> "none", v |-> NoObject, outcome |-> "none",
     result |-> NoObject, had |-> FALSE, changed |-> FALSE]

ModulesInit ==
    /\ md_python = <<>>
    /\ md_native = <<>>
    /\ md_alive = TRUE
    /\ md_registered = [k \in ModNames |-> NoObject]
    /\ md_last = NoOperation

\* view[k] = v
SetItem(k, v) ==
    /\ LET r == ModuleDictSetItem(md_python, md_native, md_alive, k, v) IN
         /\ md_python' = r.py
         /\ md_native' = r.native
         /\ md_last' = [NoOperation EXCEPT
                           !.op = "setitem", !.k = k, !.v = v, !.outcome = r.outcome,
                           !.had = Has(md_python, k),
                           !.changed = (r.py # md_python \/ r.native # md_native)]
         /\ md_registered' =
               IF r.outcome = "ok" /\ md_registered[k] = NoObject
                 THEN [md_registered EXCEPT ![k] = v]
                 ELSE md_registered
    /\ UNCHANGED md_alive
    /\ UNCHANGED not_modules

\* view[k] = v when self.module._register_module(k, v) raises
SetItemNativeRaises(k, v) ==
    /\ LET r == ModuleDictSetItemNativeRaises(md_python, md_native, md_alive, k, v) IN
         /\ md_python' = r.py
         /\ md_native' = r.native
         /\ md_last' = [NoOperation EXCEPT
                           !.op = "setitem", !.k = k, !.v = v, !.outcome = r.outcome,
                           !.had = Has(md_python, k),
                           !.changed = (r.py # md_python \/ r.native # md_native)]
         /\ md_registered' =
               IF r.outcome = "ok" /\ md_registered[k] = NoObject
                 THEN [md_registered EXCEPT ![k] = v]
                 ELSE md_registered
    /\ UNCHANGED md_alive
    /\ UNCHANGED not_modules

\* view[k]
GetItem(k) ==
    /\ LET r == ModuleDictGetItem(md_python, k) IN
         md_last' = [NoOperation EXCEPT
                       !.op = "getitem", !.k = k, !.outcome = r.outcome,
                       !.result = r.result, !.had = Has(md_python, k)]
    /\ UNCHANGED <<md_python, md_native, md_alive, md_registered>>
    /\ UNCHANGED not_modules

\* the owning module is collected while the view is still referenced; its
\* native storage goes with it
DestroyOwner ==
    /\ md_alive
    /\ md_alive' = FALSE
    /\ md_native' = <<>>
    /\ UNCHANGED <<md_python, md_registered, md_last>>
    /\ UNCHANGED not_modules

ModulesNext ==
    \/ \E k \in ModNames, v \in Objects : SetItem(k, v)
    \/ \E k \in ModNames, v \in Objects : SetItemNativeRaises(k, v)
    \/ \E k \in ModNames : GetItem(k)
    \/ DestroyOwner

(***************************************************************************)
(* _check_trace: the check of a trace against held-out inputs              *)
(***************************************************************************)
\* tensor values, counted in units of the absolute tolerance
Vals == {0, 1, 3}

\* what a callable returns that is no tensor
NonTensor == -1

\* torch.testing._get_default_tolerance(orig, check)[1]
ATol == 1

\* check_tolerance of trace(), 1e-5, as its inverse
CheckToleranceInv == 100000

\* the relative tolerance assert_allclose takes when it is given none, 1e-5,
\* as its inverse
DefaultRTolInv == 100000

Abs(x) == IF x < 0 THEN -x ELSE x

Min(a, b) == IF a < b THEN a ELSE b

\* torch.testing.assert_allclose: |actual - expected| <= atol + rtol * |expected|
AllClose(actual, expected, rinv, atol) ==
    Abs(actual - expected) * rinv <= atol * rinv + Abs(expected)

\* the nodes of a graph: kind(), kindOf('value'), t('value'), isNondeterministic()
TensorConstant(v) ==
    [kind |-> "prim::Constant", valkind |-> "t", value |-> v, nondet |-> FALSE]

IntConstant ==
    [kind |-> "prim::Constant", valkind |-> "i", value |-> 1, nondet |-> FALSE]

Dropout ==
    [kind |-> "aten::dropout", valkind |-> "none", value |-> 0, nondet |-> TRUE]

ConstVals == {0, 3}

NodeSet == {IntConstant, Dropout} \cup {TensorConstant(v) : v \in ConstVals}

NodeSeqs == UNION {[1..n -> NodeSet] : n \in 0..MaxNodes}

\* a trace notes on its values the shapes of the inputs it ran on: the trace
\* under check those of the example inputs, a re-trace those of a held-out
\* input set, taken here to be of another shape
Graphs == [nodes : NodeSeqs, shapes : {"example"}]

NoGraph == [nodes |-> <<>>, shapes |-> "none"]

\* str(node): a tensor value prints as <Tensor>, whatever it holds
NodeStr(n) ==
    [kind |-> n.kind, valkind |-> n.valkind,
     shown |-> IF n.valkind = "i" THEN n.value ELSE 0]

\* torch._C._jit_pass_erase_shape_information
EraseShapeInformation(g) == [g EXCEPT !.shapes = "erased"]

\* str(graph)
GraphStr(g) ==
    [shapes |-> g.shapes, nodes |-> [i \in 1..Len(g.nodes) |-> NodeStr(g.nodes[i])]]

NoDiagnostic == [present |-> FALSE, node |-> 0]

\* lines 316-330: the first pair of zip(nodes, nodes) whose printouts differ
RECURSIVE FirstDiverging(_, _, _)
FirstDiverging(m, c, i) ==
    IF i > Min(Len(m), Len(c)) THEN 0
    ELSE IF NodeStr(m[i]) # NodeStr(c[i]) THEN i
    ELSE FirstDiverging(m, c, i + 1)

\* lines 309-330: graph_diff_errors
GraphDiffErrors(mod, check) ==
    IF GraphStr(mod) # GraphStr(check)
      THEN [present |-> TRUE, node |-> FirstDiverging(mod.nodes, check.nodes, 1)]
      ELSE NoDiagnostic

\* lines 332-355: tensor_compare_errors
RECURSIVE TensorCompareErrors(_, _, _)
TensorCompareErrors(m, c, i) ==
    IF i > Min(Len(m), Len(c)) THEN NoDiagnostic
    ELSE IF m[i].kind # c[i].kind THEN NoDiagnostic
    ELSE IF m[i].kind # "prim::Constant" THEN TensorCompareErrors(m, c, i + 1)
    ELSE IF m[i].valkind # "t" \/ c[i].valkind # "t"
      THEN TensorCompareErrors(m, c, i + 1)
    ELSE IF ~AllClose(m[i].value, c[i].value, DefaultRTolInv, ATol)
      THEN [present |-> TRUE, node |-> i]
    ELSE TensorCompareErrors(m, c, i + 1)

\* a variant that keeps the nodes that are not nondeterministic
NondetermOpsInverted(g) == {i \in 1..Len(g.nodes) : ~g.nodes[i].nondet}

\* line 359: nondeterm_ops, taken from module.graph
NondetermOps(g) == {i \in 1..Len(g.nodes) : g.nodes[i].nondet}

NoWarning == [present |-> FALSE, nodes |-> {}]

\* lines 358-365: nondeterministic_ops_warning
NondeterministicOpsWarning(g) ==
    IF Cardinality(NondetermOps(g)) > 0
      THEN [present |-> TRUE, nodes |-> NondetermOps(g)]
      ELSE NoWarning

NoDiagnostics ==
    [graph_diff |-> NoDiagnostic, tensor_compare |-> NoDiagnostic,
     nondeterm |-> NoWarning]

\* lines 303-367: graph_diagnostic_info()
GraphDiagnosticInfo(module, check_mod) ==
    LET mod_canonicalized == EraseShapeInformation(module)
        check_canonicalized == EraseShapeInformation(check_mod)
    IN [graph_diff |-> GraphDiffErrors(mod_canonicalized, check_canonicalized),
        tensor_compare |->
            TensorCompareErrors(mod_canonicalized.nodes, check_canonicalized.nodes, 1),
        nondeterm |-> NondeterministicOpsWarning(module)]

NoResult ==
    [status |-> "running", stage |-> "none", exc |-> "none", extra |-> "none",
     sections |-> {}, diag |-> NoDiagnostics]

\* a variant whose message stops at the first diagnostic it finds
TracingCheckErrorFirstOnly(d, extra_msg) ==
    [NoResult EXCEPT
       !.status = "TracingCheckError",
       !.extra = extra_msg,
       !.diag = d,
       !.sections =
           (IF extra_msg # "none" THEN {"extra_msg"} ELSE {})
             \cup (IF d.graph_diff.present THEN {"graph_diff"}
                   ELSE IF d.nondeterm.present THEN {"nondeterm_warning"}
                   ELSE IF d.tensor_compare.present THEN {"tensor_compare"}
                   ELSE {})]

\* lines 279-295: the sections of the message of a TracingCheckError
TracingCheckError(d, extra_msg) ==
    [NoResult EXCEPT
       !.status = "TracingCheckError",
       !.extra = extra_msg,
       !.diag = d,
       !.sections =
           (IF extra_msg # "none" THEN {"extra_msg"} ELSE {})
             \cup (IF d.graph_diff.present THEN {"graph_diff"} ELSE {})
             \cup (IF d.nondeterm.present THEN {"nondeterm_warning"} ELSE {})
             \cup (IF d.tensor_compare.present THEN {"tensor_compare"} ELSE {})]

\* an exception that leaves _check_trace as it is
Propagated(stage, exc) ==
    [NoResult EXCEPT !.status = "Error", !.stage = stage, !.exc = exc]

\* what a callable returns before the tensors are picked out
RawOuts == UNION {[1..n -> Vals \cup {NonTensor}] : n \in 0..MaxOuts}

IsTensor(x) == x # NonTensor

\* lines 372-375: run_mod_and_filter_tensor_outputs
FilterTensorOutputs(outs) == SelectSeq(outs, IsTensor)

\* a call of the traced module, the callable or the re-trace: it returns or raises
RunResults ==
    {[exc |-> "none", outs |-> o] : o \in RawOuts}
      \cup {[exc |-> e, outs |-> <<>>] : e \in {"RuntimeError", "ValueError"}}

\* a variant of the loop that passes no absolute tolerance on
OutputsCloseNoAtol(orig, check, rinv) ==
    \A i \in 1..Min(Len(orig), Len(check)) : AllClose(orig[i], check[i], rinv, 0)

\* lines 385-387 and 404-406: the loop over zip(traced_outs, outs)
OutputsClose(orig, check, rinv) ==
    \A i \in 1..Min(Len(orig), Len(check)) : AllClose(orig[i], check[i], rinv, ATol)

\* what a re-trace of the callable can record, given the trace: the same
\* nodes, one node replaced, fewer nodes, or one node more
Retraces(nodes) ==
    {nodes}
      \cup {[nodes EXCEPT ![i] = n] : i \in 1..Len(nodes), n \in NodeSet}
      \cup {SubSeq(nodes, 1, k) : k \in 0..Len(nodes)}
      \cup {Append(nodes, n) : n \in IF Len(nodes) < MaxNodes THEN NodeSet ELSE {}}

VerifyOff ==
    /\ vf_module = NoGraph
    /\ vf_remaining = 0
    /\ vf_pc = "done"
    /\ vf_check = NoGraph
    /\ vf_traced_outs = <<>>
    /\ vf_fn_outs = <<>>
    /\ vf_check_outs = <<>>
    /\ vf_result = NoResult

\* _check_trace is called with the graph of the trace and the held-out inputs
VerifyInit ==
    /\ vf_module \in Graphs
    /\ vf_remaining \in 1..MaxCheckInputs
    /\ vf_pc = "retrace"
    /\ vf_check = NoGraph
    /\ vf_traced_outs = <<>>
    /\ vf_fn_outs = <<>>
    /\ vf_check_outs = <<>>
    /\ vf_result = NoResult

\* raise TracingCheckError(*graph_diagnostic_info(), extra_msg=msg)
Raise(stage, exc, extra_msg) ==
    /\ vf_result' =
          [TracingCheckError(GraphDiagnosticInfo(vf_module, vf_check), extra_msg)
             EXCEPT !.stage = stage, !.exc = exc]
    /\ vf_pc' = "done"

\* line 301: check_mod = torch.jit.trace(func, inputs, check_trace=False)
Retrace ==
    /\ vf_pc = "retrace"
    /\ \/ /\ vf_check' \in [nodes : Retraces(vf_module.nodes), shapes : {"held_out"}]
          /\ vf_pc' = "run_traced"
          /\ UNCHANGED vf_result
       \/ /\ vf_result' = Propagated("retrace", "RuntimeError")
          /\ vf_pc' = "done"
          /\ UNCHANGED vf_check
    /\ UNCHANGED <<vf_module, vf_remaining, vf_traced_outs, vf_fn_outs, vf_check_outs>>
    /\ UNCHANGED not_verify

\* lines 377-381: traced_outs
RunTraced ==
    /\ vf_pc = "run_traced"
    /\ \E r \in RunResults :
         IF r.exc # "none"
           THEN /\ Raise("traced", r.exc, "exception running trace")
                /\ UNCHANGED vf_traced_outs
           ELSE /\ vf_traced_outs' = FilterTensorOutputs(r.outs)
                /\ vf_pc' = "run_fn"
                /\ UNCHANGED vf_result
    /\ UNCHANGED <<vf_module, vf_remaining, vf_check, vf_fn_outs, vf_check_outs>>
    /\ UNCHANGED not_verify

\* line 384: fn_outs; only RuntimeError and AssertionError are caught (line 388)
RunFn ==
    /\ vf_pc = "run_fn"
    /\ \E r \in RunResults :
         IF r.exc = "ValueError"
           THEN /\ vf_result' = Propagated("fn", r.exc)
                /\ vf_pc' = "done"
                /\ UNCHANGED vf_fn_outs
         ELSE IF r.exc = "RuntimeError"
           THEN /\ Raise("fn", r.exc, "outputs do not match the Python function")
                /\ UNCHANGED vf_fn_outs
         ELSE /\ vf_fn_outs' = FilterTensorOutputs(r.outs)
              /\ vf_pc' = "compare_fn"
              /\ UNCHANGED vf_result
    /\ UNCHANGED <<vf_module, vf_remaining, vf_check, vf_traced_outs, vf_check_outs>>
    /\ UNCHANGED not_verify

\* lines 385-394: traced_outs against fn_outs; fn_outs is not read again
CompareFn ==
    /\ vf_pc = "compare_fn"
    /\ IF OutputsClose(vf_traced_outs, vf_fn_outs, CheckToleranceInv)
         THEN /\ vf_pc' = "run_check"
              /\ vf_fn_outs' = <<>>
              /\ UNCHANGED vf_result
         ELSE /\ Raise("fn", "AssertionError",
                       "outputs do not match the Python function")
              /\ UNCHANGED vf_fn_outs
    /\ UNCHANGED <<vf_module, vf_remaining, vf_check, vf_traced_outs, vf_check_outs>>
    /\ UNCHANGED not_verify

\* lines 396-401: check_outs
RunCheck ==
    /\ vf_pc = "run_check"
    /\ \E r \in RunResults :
         IF r.exc # "none"
           THEN /\ Raise("check", r.exc, "exception running checking trace")
                /\ UNCHANGED vf_check_outs
           ELSE /\ vf_check_outs' = FilterTensorOutputs(r.outs)
                /\ vf_pc' = "compare_check"
                /\ UNCHANGED vf_result
    /\ UNCHANGED <<vf_module, vf_remaining, vf_check, vf_traced_outs, vf_fn_outs>>
    /\ UNCHANGED not_verify

\* lines 403-408: traced_outs against check_outs, then the next input set; the
\* function returns after the last one
CompareCheck ==
    /\ vf_pc = "compare_check"
    /\ IF ~OutputsClose(vf_traced_outs, vf_check_outs, CheckToleranceInv)
         THEN /\ Raise("check", "AssertionError", "none")
              /\ UNCHANGED <<vf_remaining, vf_check, vf_traced_outs, vf_check_outs>>
       ELSE IF vf_remaining > 1
         THEN /\ vf_remaining' = vf_remaining - 1
              /\ vf_pc' = "retrace"
              /\ vf_check' = NoGraph
              /\ vf_traced_outs' = <<>>
              /\ vf_check_outs' = <<>>
              /\ UNCHANGED vf_result
       ELSE /\ vf_remaining' = 0
            /\ vf_result' = [NoResult EXCEPT !.status = "passed", !.stage = "end"]
            /\ vf_pc' = "done"
            /\ UNCHANGED <<vf_check, vf_traced_outs, vf_check_outs>>
    /\ UNCHANGED <<vf_module, vf_fn_outs>>
    /\ UNCHANGED not_verify

VerifyNext ==
    \/ Retrace
    \/ RunTraced
    \/ RunFn
    \/ CompareFn
    \/ RunCheck
    \/ CompareCheck

(***************************************************************************)
(* The value flattener: _flatten and _unflatten                            *)
(*                                                                         *)
(* A value is a tensor, None, or a container holding values in order.      *)
(* Every value is a record of the same three fields, so that values of     *)
(* different kinds can be compared.                                        *)
(***************************************************************************)
FTensor(i) == [kind |-> "tensor", id |-> i, items |-> <<>>]

FNone == [kind |-> "none", id |-> 0, items |-> <<>>]

FTuple(s) == [kind |-> "tuple", id |-> 0, items |-> s]

FList(s) == [kind |-> "list", id |-> 0, items |-> s]

\* a container kind the flattener does not support
FDict(s) == [kind |-> "dict", id |-> 0, items |-> s]

\* the container kinds _flatten walks into
FlattenKinds == {"tuple", "list"}

FlatLeaves == {FTensor(i) : i \in Tensors} \cup {FNone}

SeqsUpTo(S, n) == UNION {[1..k -> S] : k \in 0..n}

\* containers of leaves
Flat1 ==
    {[kind |-> kd, id |-> 0, items |-> s] :
        kd \in FlattenKinds \cup {"dict"}, s \in SeqsUpTo(FlatLeaves, MaxWidth)}

\* containers holding one container of leaves, alone or beside one leaf
Flat2 ==
    {[kind |-> kd, id |-> 0, items |-> s] :
        kd \in FlattenKinds,
        s \in {<<c>> : c \in Flat1}
              \cup {<<l, c>> : l \in FlatLeaves, c \in Flat1}
              \cup {<<c, l>> : l \in FlatLeaves, c \in Flat1}}

\* the argument tuples of a call: one argument of any of the shapes above
FlattenArgs == {FTuple(<<x>>) : x \in FlatLeaves \cup Flat1 \cup Flat2}

\* the tensors of the module state in the order of the state dict
FlattenStates == SeqsUpTo(Tensors, 1)

RECURSIVE FlattenSupported(_)
\* whether _flatten accepts x: no container of another kind anywhere in it
FlattenSupported(x) ==
    \/ x.kind \in {"tensor", "none"}
    \/ /\ x.kind \in FlattenKinds
       /\ \A i \in 1..Len(x.items) : FlattenSupported(x.items[i])

RECURSIVE FlattenVars(_)
RECURSIVE FlattenVarsOfItems(_)
\* the leaf sequence of x: the tensors in the order a left-to-right walk meets them
FlattenVars(x) ==
    IF x.kind = "tensor" THEN <<x.id>>
    ELSE IF x.kind = "none" THEN <<>>
    ELSE FlattenVarsOfItems(x.items)

FlattenVarsOfItems(s) ==
    IF s = <<>> THEN <<>> ELSE FlattenVars(Head(s)) \o FlattenVarsOfItems(Tail(s))

RECURSIVE FlattenDesc(_)
\* the descriptor of x: its tree shape, a tensor replaced by a slot and every
\* other leaf kept as it is
FlattenDesc(x) ==
    IF x.kind = "tensor" THEN [x EXCEPT !.id = NoTensor]
    ELSE IF x.kind = "none" THEN x
    ELSE [x EXCEPT !.items = [i \in 1..Len(x.items) |-> FlattenDesc(x.items[i])]]

\* _flatten(x): the leaf sequence and the descriptor, or a TypeError
Flatten(x) ==
    IF FlattenSupported(x)
    THEN [error |-> "none", vars |-> FlattenVars(x), desc |-> FlattenDesc(x)]
    ELSE [error |-> "TypeError", vars |-> <<>>, desc |-> FNone]

RECURSIVE UnflattenRec(_, _)
RECURSIVE UnflattenItems(_, _)
\* rebuilds the value of descriptor d from the front of the leaves; what is
\* left of the leaves is handed on to the next slot
UnflattenRec(d, leaves) ==
    IF d.kind = "tensor"
    THEN IF leaves = <<>>
         THEN [ok |-> FALSE, value |-> FNone, rest |-> <<>>]
         ELSE [ok |-> TRUE, value |-> FTensor(Head(leaves)), rest |-> Tail(leaves)]
    ELSE IF d.kind = "none"
    THEN [ok |-> TRUE, value |-> FNone, rest |-> leaves]
    ELSE LET r == UnflattenItems(d.items, leaves)
         IN  [ok |-> r.ok, value |-> [d EXCEPT !.items = r.values], rest |-> r.rest]

UnflattenItems(ds, leaves) ==
    IF ds = <<>>
    THEN [ok |-> TRUE, values |-> <<>>, rest |-> leaves]
    ELSE LET r == UnflattenRec(Head(ds), leaves)
         IN  IF ~r.ok
             THEN [ok |-> FALSE, values |-> <<>>, rest |-> <<>>]
             ELSE LET t == UnflattenItems(Tail(ds), r.rest)
                  IN  [ok |-> t.ok, values |-> <<r.value>> \o t.values, rest |-> t.rest]

\* _unflatten(leaves, d): the value, or an error when the leaves do not fit
\* the slots of the descriptor
Unflatten(leaves, d) ==
    LET r == UnflattenRec(d, leaves)
    IN  IF r.ok /\ r.rest = <<>>
        THEN [error |-> "none", value |-> r.value]
        ELSE [error |-> "RuntimeError", value |-> FNone]

\* the placeholder the tracer hands back for input tensor i
TracerInput(i) == i + NumTensors

\* torch._C._tracer_enter(*inputs): one placeholder per input, in order
TracerEnterInputs(inputs) == [i \in 1..Len(inputs) |-> TracerInput(inputs[i])]

\* all_trace_inputs[:n], the placeholders of the arguments
ArgInputsFromEnd(all, n) == SubSeq(all, Len(all) - n + 1, Len(all))

ArgInputs(all, n) == SubSeq(all, 1, n)

FlattenOff ==
    /\ fl_args = FNone
    /\ fl_state = <<>>
    /\ fl_pc = "off"
    /\ fl_in_vars = <<>>
    /\ fl_in_desc = FNone
    /\ fl_all_inputs = <<>>
    /\ fl_trace_inputs = FNone

FlattenInit ==
    /\ fl_args \in FlattenArgs
    /\ fl_state \in FlattenStates
    /\ fl_pc = "flatten"
    /\ fl_in_vars = <<>>
    /\ fl_in_desc = FNone
    /\ fl_all_inputs = <<>>
    /\ fl_trace_inputs = FNone

\* in_vars, in_desc = _flatten(args)
FlattenInputs ==
    /\ fl_pc = "flatten"
    /\ LET r == Flatten(fl_args)
       IN  /\ fl_pc' = IF r.error = "none" THEN "enter" ELSE r.error
           /\ fl_in_vars' = r.vars
           /\ fl_in_desc' = r.desc
    /\ UNCHANGED <<fl_args, fl_state, fl_all_inputs, fl_trace_inputs>>
    /\ UNCHANGED not_flatten

\* trace, all_trace_inputs = torch._C._tracer_enter(*(in_vars + module_state))
EnterWithInputs ==
    /\ fl_pc = "enter"
    /\ fl_all_inputs' = TracerEnterInputs(fl_in_vars \o fl_state)
    /\ fl_pc' = "unflatten"
    /\ UNCHANGED <<fl_args, fl_state, fl_in_vars, fl_in_desc, fl_trace_inputs>>
    /\ UNCHANGED not_flatten

\* trace_inputs = _unflatten(all_trace_inputs[:len(in_vars)], in_desc)
UnflattenInputs ==
    /\ fl_pc = "unflatten"
    /\ LET r == Unflatten(ArgInputs(fl_all_inputs, Len(fl_in_vars)), fl_in_desc)
       IN  /\ fl_pc' = IF r.error = "none" THEN "body" ELSE r.error
           /\ fl_trace_inputs' = r.value
    /\ UNCHANGED <<fl_args, fl_state, fl_in_vars, fl_in_desc, fl_all_inputs>>
    /\ UNCHANGED not_flatten

FlattenNext ==
    \/ FlattenInputs
    \/ EnterWithInputs
    \/ UnflattenInputs

(***************************************************************************)
(* trace: the trace of a function, and calls of the result                 *)
(*                                                                         *)
(* A function is a sequence of operations on one tensor, a tensor is one   *)
(* integer.  "branch" is a conditional on the data of the tensor, and      *)
(* "add_global" reads a global variable, which the tracer does not track.  *)
(***************************************************************************)
FnOps == {"double", "inc", "branch", "add_global"}

Funcs == UNION {[1..k -> FnOps] : k \in 1..MaxOps}

FnInputs == {-1, 1, 2}

Globals == {0, 1}

\* check_trace=False, check_inputs=None, or one set of check inputs
FnChecks ==
    {[mode |-> md, inputs |-> 0] : md \in {"off", "example"}}
        \cup {[mode |-> "inputs", inputs |-> x] : x \in FnInputs}

\* the operation the interpreter performs for op on the value x
FnOperation(op, x, g) ==
    CASE op = "double" -> [op |-> "mul", c |-> 2]
      [] op = "inc" -> [op |-> "add", c |-> 1]
      [] op = "add_global" -> [op |-> "add", c |-> g]
      [] op = "branch" -> IF x > 0 THEN [op |-> "add", c |-> 1]
                                   ELSE [op |-> "mul", c |-> 2]

\* the result of one node of a graph
RunNode(n, x) == IF n.op = "mul" THEN x * n.c ELSE x + n.c

RECURSIVE RunGraph(_, _)
\* the method replays the nodes of its graph in order
RunGraph(graph, x) ==
    IF graph = <<>> THEN x ELSE RunGraph(Tail(graph), RunNode(Head(graph), x))

RECURSIVE RecordTrace(_, _, _)
\* _create_method_from_trace: runs func on x and records each operation
\* that is performed on the way, with the constants it is performed with
RecordTrace(func, x, g) ==
    IF func = <<>> THEN <<>>
    ELSE LET n == FnOperation(Head(func), x, g)
         IN  <<n>> \o RecordTrace(Tail(func), RunNode(n, x), g)

\* func(x), evaluated by the Python interpreter
CallFunc(func, x, g) == RunGraph(RecordTrace(func, x, g), x)

NoArtifact == [kind |-> "none", graph |-> <<>>]

FnReturned(v) == [error |-> "none", value |-> v]

FnRaised(e) == [error |-> e, value |-> 0]

\* TracedModule.forward
TracedModuleForward(graph, x) == FnRaised("Trace submodules cannot be called.")

\* TopLevelTracedModule.forward: self._get_method('forward')(*args, **kwargs)
TopLevelTracedModuleForward(graph, x) == FnReturned(RunGraph(graph, x))

\* a call of what trace returned
CallArtifact(artifact, func, x, g) ==
    IF artifact.kind = "func" THEN FnReturned(CallFunc(func, x, g))
    ELSE TopLevelTracedModuleForward(artifact.graph, x)

\* _check_trace on one set of inputs: whether an output comparison fails
CheckTraceFails(graph, func, inputs, g) ==
    LET check_mod == RecordTrace(func, inputs, g)
        traced_outs == RunGraph(graph, inputs)
        fn_outs == CallFunc(func, inputs, g)
        check_outs == RunGraph(check_mod, inputs)
    IN  traced_outs # fn_outs \/ traced_outs # check_outs

NoFnCall == [input |-> 0, traced |-> FnRaised("none"), direct |-> FnRaised("none")]

TraceFnOff ==
    /\ tf_func = <<>>
    /\ tf_example = 0
    /\ tf_check = [mode |-> "off", inputs |-> 0]
    /\ tf_enabled = FALSE
    /\ tf_global = 0
    /\ tf_artifact = NoArtifact
    /\ tf_last = NoFnCall

TraceFnInit ==
    /\ tf_func \in Funcs
    /\ tf_example \in FnInputs
    /\ tf_check \in FnChecks
    /\ tf_enabled \in BOOLEAN
    /\ tf_global \in Globals
    /\ tf_artifact = NoArtifact
    /\ tf_last = NoFnCall

\* trace(func, example_inputs, check_trace, check_inputs)
TraceFn ==
    /\ tf_artifact = NoArtifact
    /\ IF ~tf_enabled
       THEN tf_artifact' = [kind |-> "func", graph |-> <<>>]
       ELSE LET graph == RecordTrace(tf_func, tf_example, tf_global)
                inputs == IF tf_check.mode = "example" THEN tf_example
                                                       ELSE tf_check.inputs
            IN  IF tf_check.mode # "off" /\ CheckTraceFails(graph, tf_func, inputs, tf_global)
                THEN tf_artifact' = [kind |-> "TracingCheckError", graph |-> <<>>]
                ELSE tf_artifact' = [kind |-> "module", graph |-> graph]
    /\ UNCHANGED <<tf_func, tf_example, tf_check, tf_enabled, tf_global, tf_last>>
    /\ UNCHANGED not_tracefn

\* the program assigns the global variable
SetGlobal ==
    /\ \E g \in Globals \ {tf_global} : tf_global' = g
    /\ UNCHANGED <<tf_func, tf_example, tf_check, tf_enabled, tf_artifact, tf_last>>
    /\ UNCHANGED not_tracefn

\* the artifact is called on fresh inputs; func is called on them beside it
CallTraced ==
    /\ tf_artifact.kind \in {"func", "module"}
    /\ \E x \in FnInputs :
          tf_last' = [input |-> x,
                      traced |-> CallArtifact(tf_artifact, tf_func, x, tf_global),
                      direct |-> FnReturned(CallFunc(tf_func, x, tf_global))]
    /\ UNCHANGED <<tf_func, tf_example, tf_check, tf_enabled, tf_global, tf_artifact>>
    /\ UNCHANGED not_tracefn

TraceFnNext ==
    \/ TraceFn
    \/ SetGlobal
    \/ CallTraced

(***************************************************************************)
(* ScriptMeta: init_then_register along a chain of classes                 *)
(*                                                                         *)
(* Class 0 is ScriptModule, class c > 0 is a user class whose base is      *)
(* class c - 1.  Every class of the chain is created by ScriptMeta, so     *)
(* the __init__ of every class is its init_then_register.                  *)
(***************************************************************************)
ScriptClasses == 0..NumClasses

\* the names of script methods, in the order of sorted(attrs.items())
StubOrder == <<"f", "g">>

StubNames == {StubOrder[i] : i \in 1..Len(StubOrder)}

\* ScriptModule: defines __init__, which calls no wrapped initializer, and
\* declares no script method
ScriptModuleClass == [has_init |-> TRUE, super_calls |-> 0, stubs |-> {}]

UserClasses ==
    {[has_init |-> FALSE, super_calls |-> 0, stubs |-> s] : s \in SUBSET StubNames}
        \cup [has_init : {TRUE}, super_calls : 0..MaxSuperCalls, stubs : SUBSET StubNames]

\* script_method(fn): the stub of method name of class c, with the resolver
\* created for it
ScriptMethodStub(c, name) ==
    [resolution_callback |-> [cls |-> c, name |-> name],
     def_ |-> [cls |-> c, name |-> name],
     name |-> name]

IsStubOf(cl, name) == name \in cl.stubs

\* methods, the stubs ScriptMeta.__init__ found among the attributes of c
MethodsOf(classes, c) ==
    LET names == SelectSeq(StubOrder, LAMBDA n : IsStubOf(classes[c], n))
    IN  [i \in 1..Len(names) |-> ScriptMethodStub(c, names[i])]

Defs(methods) == [i \in 1..Len(methods) |-> methods[i].def_]

\* rcbs = [m.resolution_callback for m in methods]
RcbsOfFirstMethod(methods) ==
    [i \in 1..Len(methods) |-> methods[1].resolution_callback]

Rcbs(methods) == [i \in 1..Len(methods) |-> methods[i].resolution_callback]

NoRcb == [cls |-> 0, name |-> ""]

ScriptEvent(ev, c) == [ev |-> ev, cls |-> c, name |-> "", rcb |-> NoRcb]

\* self._create_methods(defs, rcbs): each definition is compiled with the
\* resolver at its position and registered under its name
CreateMethodsLog(c, defs, rcbs) ==
    [i \in 1..Len(defs) |->
        [ev |-> "compile", cls |-> defs[i].cls, name |-> defs[i].name, rcb |-> rcbs[i]]]

RECURSIVE CreateMethods(_, _, _)
CreateMethods(table, defs, rcbs) ==
    IF defs = <<>> THEN table
    ELSE CreateMethods([table EXCEPT ![Head(defs).name] =
                            [def_ |-> Head(defs), rcb |-> Head(rcbs)]],
                       Tail(defs), Tail(rcbs))

NoMethod == [def_ |-> NoRcb, rcb |-> NoRcb]

\* if cls is type(self)
NativeInitAlways(c, type) == TRUE

NativeInitHere(c, type) == c = type

ScriptFrame(c, pc, calls) == [cls |-> c, pc |-> pc, calls |-> calls]

ScriptTop == sc_stack[Len(sc_stack)]

ScriptSetTop(f) == [sc_stack EXCEPT ![Len(sc_stack)] = f]

ScriptOff ==
    /\ sc_classes = [c \in ScriptClasses |-> ScriptModuleClass]
    /\ sc_type = 0
    /\ sc_stack = <<>>
    /\ sc_log = <<>>
    /\ sc_methods = [n \in StubNames |-> NoMethod]

ScriptInit ==
    /\ sc_type \in ScriptClasses
    /\ sc_classes \in [ScriptClasses -> UserClasses \cup {ScriptModuleClass}]
    /\ sc_classes[0] = ScriptModuleClass
    /\ \A c \in ScriptClasses \ {0} :
          IF c <= sc_type THEN sc_classes[c] \in UserClasses
                          ELSE sc_classes[c] = ScriptModuleClass
    /\ sc_stack = <<>>
    /\ sc_log = <<>>
    /\ sc_methods = [n \in StubNames |-> NoMethod]

\* the instance is created: type(self).__init__(self) is called
ScriptConstruct ==
    /\ sc_stack = <<>>
    /\ sc_log = <<>>
    /\ sc_stack' = <<ScriptFrame(sc_type, "enter", 0)>>
    /\ sc_log' = <<ScriptEvent("construct", sc_type)>>
    /\ UNCHANGED <<sc_classes, sc_type, sc_methods>>
    /\ UNCHANGED not_script

\* init_then_register of a class that defines __init__, up to the call of it
WrapperCallsOwnInit ==
    /\ sc_stack # <<>>
    /\ ScriptTop.pc = "enter"
    /\ sc_classes[ScriptTop.cls].has_init
    /\ LET c == ScriptTop.cls
           native == IF NativeInitHere(c, sc_type)
                     THEN <<ScriptEvent("native_init", c)>> ELSE <<>>
       IN  /\ sc_log' = sc_log \o native \o <<ScriptEvent("user_enter", c)>>
           /\ sc_stack' = ScriptSetTop(ScriptFrame(c, "user", sc_classes[c].super_calls))
    /\ UNCHANGED <<sc_classes, sc_type, sc_methods>>
    /\ UNCHANGED not_script

\* init_then_register of a class that inherits __init__: original_init is
\* the init_then_register of the base class
WrapperCallsInheritedInit ==
    /\ sc_stack # <<>>
    /\ ScriptTop.pc = "enter"
    /\ ~sc_classes[ScriptTop.cls].has_init
    /\ LET c == ScriptTop.cls
           native == IF NativeInitHere(c, sc_type)
                     THEN <<ScriptEvent("native_init", c)>> ELSE <<>>
       IN  /\ sc_log' = sc_log \o native \o <<ScriptEvent("inherited_enter", c)>>
           /\ sc_stack' = Append(ScriptSetTop(ScriptFrame(c, "inherited", 0)),
                                 ScriptFrame(c - 1, "enter", 0))
    /\ UNCHANGED <<sc_classes, sc_type, sc_methods>>
    /\ UNCHANGED not_script

\* the user's __init__ calls the initializer of the base class
UserCallsSuperInit ==
    /\ sc_stack # <<>>
    /\ ScriptTop.pc = "user"
    /\ ScriptTop.calls > 0
    /\ sc_stack' = Append(ScriptSetTop([ScriptTop EXCEPT !.calls = @ - 1]),
                          ScriptFrame(ScriptTop.cls - 1, "enter", 0))
    /\ UNCHANGED <<sc_classes, sc_type, sc_log, sc_methods>>
    /\ UNCHANGED not_script

\* the user's __init__ returns
UserInitReturns ==
    /\ sc_stack # <<>>
    /\ ScriptTop.pc = "user"
    /\ ScriptTop.calls = 0
    /\ sc_log' = Append(sc_log, ScriptEvent("init_return", ScriptTop.cls))
    /\ sc_stack' = ScriptSetTop([ScriptTop EXCEPT !.pc = "register"])
    /\ UNCHANGED <<sc_classes, sc_type, sc_methods>>
    /\ UNCHANGED not_script

\* a variant in which the methods are created in a finally clause
CreateMethodsInFinally(table, defs, rcbs) == CreateMethods(table, defs, rcbs)

\* lines 797-800: original_init raises, and the statements after it, the
\* call of _create_methods among them, do not run
CreateMethodsAfterRaise(table, defs, rcbs) == table

\* an exception leaves the init_then_register of the frame on top: it comes
\* to the caller, the user's __init__ of the derived class or the
\* init_then_register of a class that inherits its initializer
ScriptPropagate ==
    LET c == ScriptTop.cls
        methods == MethodsOf(sc_classes, c)
        rest == SubSeq(sc_stack, 1, Len(sc_stack) - 1)
    IN  /\ sc_log' = Append(sc_log, ScriptEvent("raise", c))
        /\ sc_methods' = CreateMethodsAfterRaise(sc_methods, Defs(methods), Rcbs(methods))
        /\ sc_stack' = IF rest = <<>> THEN rest
                       ELSE [rest EXCEPT ![Len(rest)].pc =
                               IF @ = "user" THEN "exc_user" ELSE "exc_inherited"]

\* the user's __init__ raises
UserInitRaises ==
    /\ sc_stack # <<>>
    /\ ScriptTop.pc = "user"
    /\ ScriptPropagate
    /\ UNCHANGED <<sc_classes, sc_type>>
    /\ UNCHANGED not_script

\* the exception of the initializer of the base class leaves the user's
\* __init__ that called it (which is taken to handle no exception)
UserInitLetsThrough ==
    /\ sc_stack # <<>>
    /\ ScriptTop.pc = "exc_user"
    /\ ScriptPropagate
    /\ UNCHANGED <<sc_classes, sc_type>>
    /\ UNCHANGED not_script

\* init_then_register of a class that inherits its initializer has no
\* handler: the exception of original_init leaves it
WrapperLetsThrough ==
    /\ sc_stack # <<>>
    /\ ScriptTop.pc = "exc_inherited"
    /\ ScriptPropagate
    /\ UNCHANGED <<sc_classes, sc_type>>
    /\ UNCHANGED not_script

\* the rest of init_then_register: the methods of the class are created and
\* the call returns to its caller
RegisterMethods ==
    /\ sc_stack # <<>>
    /\ ScriptTop.pc = "register"
    /\ LET c == ScriptTop.cls
           methods == MethodsOf(sc_classes, c)
           defs == Defs(methods)
           rcbs == Rcbs(methods)
           rest == SubSeq(sc_stack, 1, Len(sc_stack) - 1)
           returned == rest # <<>> /\ rest[Len(rest)].pc = "inherited"
       IN  /\ sc_methods' = CreateMethods(sc_methods, defs, rcbs)
           /\ sc_log' = sc_log \o CreateMethodsLog(c, defs, rcbs)
                          \o IF returned
                             THEN <<ScriptEvent("init_return", rest[Len(rest)].cls)>>
                             ELSE <<>>
           /\ sc_stack' = IF returned
                          THEN [rest EXCEPT ![Len(rest)].pc = "register"]
                          ELSE rest
    /\ UNCHANGED <<sc_classes, sc_type>>
    /\ UNCHANGED not_script

ScriptNext ==
    \/ ScriptConstruct
    \/ WrapperCallsOwnInit
    \/ WrapperCallsInheritedInit
    \/ UserCallsSuperInit
    \/ UserInitReturns
    \/ UserInitRaises
    \/ UserInitLetsThrough
    \/ WrapperLetsThrough
    \/ RegisterMethods

(***************************************************************************)
(* OrderedDictWrapper and its three subclasses: the views of a module      *)
(***************************************************************************)
Views == {"parameters", "buffers", "modules"}

\* the names under which parameters and buffers are registered
ParamNames == {"w", "b"}

ViewNames(view) == IF view = "modules" THEN ModNames ELSE ParamNames

\* one compiled and one Python-only submodule
ViewObjects == {o \in Objects : o.id = 1}

\* what the three views read and write
ViewStore(py, modules, params, alive) ==
    [py |-> py, modules |-> modules, params |-> params, alive |-> alive]

\* what an operation on a view yields: how it ended, the storage after it,
\* and the object, the tensor, the truth value or the keys it returned
ViewResult(outcome, st) ==
    [outcome |-> outcome, st |-> st, result |-> NoObject, tensor |-> NoTensor,
     found |-> FALSE, listing |-> <<>>]

\* OrderedDictWrapper.module raises when the owner is gone
ModuleIsDead(st) == ~st.alive

\* script::Module::register_parameter: a name that is present gets the new
\* tensor and the new kind, another name is appended
NativeRegisterParameter(params, k, v, is_buffer) ==
    IF Has(params, k)
      THEN [i \in 1..Len(params) |->
              IF params[i].k = k THEN [k |-> k, v |-> v, is_buffer |-> is_buffer]
                                 ELSE params[i]]
      ELSE Append(params, [k |-> k, v |-> v, is_buffer |-> is_buffer])

IsBuffer(params, k) == params[CHOOSE i \in 1..Len(params) : params[i].k = k].is_buffer

\* _has_parameter(k)
NativeHasParameter(params, k) == Has(params, k) /\ ~IsBuffer(params, k)

\* _has_buffer(k)
NativeHasBuffer(params, k) == Has(params, k) /\ IsBuffer(params, k)

\* the names _get_parameters() lists with the given kind, in order
NamesOfKind(params, is_buffer) ==
    LET kept == SelectSeq(params, LAMBDA e : e.is_buffer = is_buffer)
    IN  [i \in 1..Len(kept) |-> kept[i].k]

\* the keys of an ordered dict, in order
Keys(d) == [i \in 1..Len(d) |-> d[i].k]

\* OrderedDictWrapper.__delitem__
WrapperDelItemRemoves(st, view, k) ==
    ViewResult("ok",
        [st EXCEPT !.py = IF view = "modules"
                          THEN SelectSeq(st.py, LAMBDA e : e.k # k) ELSE @,
                   !.params = IF view # "modules"
                              THEN SelectSeq(st.params, LAMBDA e : e.k # k) ELSE @])

WrapperDelItem(st, view, k) == ViewResult("RuntimeError", st)

\* OrderedModuleDict.items
ModuleDictItems(st) == [ViewResult("ok", st) EXCEPT !.listing = Keys(st.py)]

\* OrderedModuleDict.__contains__
ModuleDictContains(st, k) == [ViewResult("ok", st) EXCEPT !.found = Has(st.py, k)]

\* a variant of OrderedParameterDict.items without `if not is_buffer`
ParameterDictItemsUnfiltered(st) ==
    IF ModuleIsDead(st) THEN ViewResult("LifecycleViolation", st)
    ELSE [ViewResult("ok", st) EXCEPT !.listing = Keys(st.params)]

\* OrderedParameterDict.items
ParameterDictItems(st) ==
    IF ModuleIsDead(st) THEN ViewResult("LifecycleViolation", st)
    ELSE [ViewResult("ok", st) EXCEPT !.listing = NamesOfKind(st.params, FALSE)]

\* OrderedParameterDict.__setitem__
ParameterDictSetItem(st, k, v) ==
    IF ModuleIsDead(st) THEN ViewResult("LifecycleViolation", st)
    ELSE ViewResult("ok", [st EXCEPT !.params = NativeRegisterParameter(@, k, v, FALSE)])

\* OrderedParameterDict.__contains__
ParameterDictContains(st, k) ==
    IF ModuleIsDead(st) THEN ViewResult("LifecycleViolation", st)
    ELSE [ViewResult("ok", st) EXCEPT !.found = NativeHasParameter(st.params, k)]

\* OrderedParameterDict.__getitem__
ParameterDictGetItemNoTest(st, k) ==
    IF ModuleIsDead(st) THEN ViewResult("LifecycleViolation", st)
    ELSE IF ~Has(st.params, k) THEN ViewResult("NativeError", st)
    ELSE [ViewResult("ok", st) EXCEPT !.tensor = Get(st.params, k)]

ParameterDictGetItem(st, k) ==
    IF ParameterDictContains(st, k).outcome # "ok" THEN ParameterDictContains(st, k)
    ELSE IF ~ParameterDictContains(st, k).found THEN ViewResult("KeyError", st)
    ELSE [ViewResult("ok", st) EXCEPT !.tensor = Get(st.params, k)]

\* OrderedBufferDict.items
BufferDictItems(st) ==
    IF ModuleIsDead(st) THEN ViewResult("LifecycleViolation", st)
    ELSE [ViewResult("ok", st) EXCEPT !.listing = NamesOfKind(st.params, TRUE)]

\* OrderedBufferDict.__setitem__
BufferDictSetItem(st, k, v) ==
    IF ModuleIsDead(st) THEN ViewResult("LifecycleViolation", st)
    ELSE ViewResult("ok", [st EXCEPT !.params = NativeRegisterParameter(@, k, v, TRUE)])

\* OrderedBufferDict.__contains__
BufferDictContains(st, k) ==
    IF ModuleIsDead(st) THEN ViewResult("LifecycleViolation", st)
    ELSE [ViewResult("ok", st) EXCEPT !.found = NativeHasBuffer(st.params, k)]

\* OrderedBufferDict.__getitem__
BufferDictGetItem(st, k) ==
    IF BufferDictContains(st, k).outcome # "ok" THEN BufferDictContains(st, k)
    ELSE IF ~BufferDictContains(st, k).found THEN ViewResult("KeyError", st)
    ELSE [ViewResult("ok", st) EXCEPT !.tensor = Get(st.params, k)]

\* view[k] of each of the three views
ViewGetItem(st, view, k) ==
    CASE view = "parameters" -> ParameterDictGetItem(st, k)
      [] view = "buffers" -> BufferDictGetItem(st, k)
      [] view = "modules" ->
            LET r == ModuleDictGetItem(st.py, k)
            IN  [ViewResult(r.outcome, st) EXCEPT !.result = r.result]

\* view[k] = v of each of the three views
ViewSetItem(st, view, k, v) ==
    CASE view = "parameters" -> ParameterDictSetItem(st, k, v)
      [] view = "buffers" -> BufferDictSetItem(st, k, v)
      [] view = "modules" ->
            LET r == ModuleDictSetItem(st.py, st.modules, st.alive, k, v)
            IN  ViewResult(r.outcome, [st EXCEPT !.py = r.py, !.modules = r.native])

\* k in view
ViewContains(st, view, k) ==
    CASE view = "parameters" -> ParameterDictContains(st, k)
      [] view = "buffers" -> BufferDictContains(st, k)
      [] view = "modules" -> ModuleDictContains(st, k)

\* view.items(), which keys, values and iteration go through
ViewItems(st, view) ==
    CASE view = "parameters" -> ParameterDictItems(st)
      [] view = "buffers" -> BufferDictItems(st)
      [] view = "modules" -> ModuleDictItems(st)

\* the values a view is given
ViewValues(view) == IF view = "modules" THEN ViewObjects ELSE Tensors

NoViewOperation ==
    [op |-> "none", view |-> "none", k |-> "none",
     before |-> ViewStore(<<>>, <<>>, <<>>, TRUE),
     r |-> ViewResult("none", ViewStore(<<>>, <<>>, <<>>, TRUE))]

\* a name that no view has registered
NotRegistered == [view |-> "none", v |-> NoTensor]

ViewCurrent == ViewStore(vw_python, vw_modules, vw_params, vw_alive)

\* the storage after an operation, and the record of the operation
ViewApply(op, view, k, r) ==
    /\ vw_python' = r.st.py
    /\ vw_modules' = r.st.modules
    /\ vw_params' = r.st.params
    /\ vw_alive' = r.st.alive
    /\ vw_last' = [op |-> op, view |-> view, k |-> k, before |-> ViewCurrent, r |-> r]
    /\ UNCHANGED not_views

ViewsOff ==
    /\ vw_python = <<>>
    /\ vw_modules = <<>>
    /\ vw_params = <<>>
    /\ vw_alive = FALSE
    /\ vw_via = [k \in ParamNames |-> NotRegistered]
    /\ vw_last = NoViewOperation

ViewsInit ==
    /\ vw_python = <<>>
    /\ vw_modules = <<>>
    /\ vw_params = <<>>
    /\ vw_alive = TRUE
    /\ vw_via = [k \in ParamNames |-> NotRegistered]
    /\ vw_last = NoViewOperation

ViewLookup(view, k) ==
    /\ ViewApply("getitem", view, k, ViewGetItem(ViewCurrent, view, k))
    /\ UNCHANGED vw_via

ViewRegister(view, k, v) ==
    /\ ViewApply("setitem", view, k, ViewSetItem(ViewCurrent, view, k, v))
    /\ vw_via' = IF view # "modules" /\ ViewSetItem(ViewCurrent, view, k, v).outcome = "ok"
                   THEN [vw_via EXCEPT ![k] = [view |-> view, v |-> v]]
                   ELSE vw_via

ViewTest(view, k) ==
    /\ ViewApply("contains", view, k, ViewContains(ViewCurrent, view, k))
    /\ UNCHANGED vw_via

ViewIterate(view) ==
    /\ ViewApply("items", view, "none", ViewItems(ViewCurrent, view))
    /\ UNCHANGED vw_via

ViewDelete(view, k) ==
    /\ ViewApply("delitem", view, k, WrapperDelItem(ViewCurrent, view, k))
    /\ UNCHANGED vw_via

\* the owning module is collected while its views are still referenced; its
\* native storage goes with it
ViewOwnerDestroyed ==
    /\ vw_alive
    /\ vw_alive' = FALSE
    /\ vw_modules' = <<>>
    /\ vw_params' = <<>>
    /\ vw_last' = [NoViewOperation EXCEPT
                      !.op = "destroy", !.before = ViewCurrent,
                      !.r = ViewResult("ok", ViewStore(vw_python, <<>>, <<>>, FALSE))]
    /\ UNCHANGED <<vw_python, vw_via>>
    /\ UNCHANGED not_views

ViewsNext ==
    \/ \E view \in Views : \E k \in ViewNames(view) : ViewLookup(view, k)
    \/ \E view \in Views : \E k \in ViewNames(view) : \E v \in ViewValues(view) :
          ViewRegister(view, k, v)
    \/ \E view \in Views : \E k \in ViewNames(view) : ViewTest(view, k)
    \/ \E view \in Views : ViewIterate(view)
    \/ \E view \in Views : \E k \in ViewNames(view) : ViewDelete(view, k)
    \/ ViewOwnerDestroyed

(***************************************************************************)
(* trace of a module tree: the construction of the compiled module, and    *)
(* the capture that follows it                                             *)
(***************************************************************************)
\* the thread that calls trace
TraceThread == CHOOSE t \in Contexts : TRUE

\* the trees handed to trace: every choice of entries and hooks, on a chain
\* of three modules
TraceTrees ==
    [children : {[root |-> <<"a">>, a |-> <<"b">>, b |-> <<>>]},
     entries : EntrySeqs,
     hooks : {{}} \cup {{mod} : mod \in Modules}]

\* an exception raised by line 486 leaves trace: line 487 is not reached
TraceProceedsAlways(r) == TRUE

TraceProceeds(r) == r.err = "none"

\* the tree of the call, before the construction
TraceTreeInit == tm_orig \in TraceTrees /\ TracedIdle

TraceCallOff ==
    /\ tc_pc = "off"
    /\ tc_error = "none"
    /\ tc_sessions = {}

TraceCallInit ==
    /\ tc_pc = "construct"
    /\ tc_error = "none"
    /\ tc_sessions = {}

\* line 486: module = TopLevelTracedModule(func, **executor_options)
TraceConstructs ==
    /\ tc_pc = "construct"
    /\ LET r == TracedModuleInit(tm_orig, "root",
                   [NoConstruction EXCEPT !.done = TRUE,
                                          !.ids = FreshIdSet(tm_leftover)])
       IN /\ tm_result' = r
          /\ tm_leftover' = r.ids
          /\ tc_pc' = IF TraceProceeds(r) THEN "capture" ELSE "raised"
          /\ tc_error' = IF TraceProceeds(r) THEN "none" ELSE r.err
    /\ tm_prev' = tm_result
    /\ UNCHANGED <<tm_orig, tc_sessions>>
    /\ UNCHANGED capture_vars
    /\ UNCHANGED not_tracecall

\* line 487: module._create_method_from_trace('forward', func, example_inputs)
\* begins a capture session
TraceCaptureBegins ==
    /\ tc_pc = "capture"
    /\ LET r == TracerEnter(tracing_state[TraceThread], next_session) IN
         IF r.ok
           THEN /\ tracing_state' = [tracing_state EXCEPT ![TraceThread] = r.state]
                /\ next_session' = next_session + 1
                /\ live' = [live EXCEPT ![TraceThread] = @ \cup {r.state}]
                /\ tc_sessions' = tc_sessions \cup {r.state}
                /\ tc_pc' = "body"
                /\ UNCHANGED tc_error
           ELSE /\ tc_pc' = "raised"
                /\ tc_error' = "ReentrantCapture"
                /\ UNCHANGED <<tracing_state, next_session, live, tc_sessions>>
    /\ UNCHANGED <<stack, last_call>>
    /\ UNCHANGED traced_vars
    /\ UNCHANGED not_tracecall

\* the traced call returns: the session is finished and its graph becomes
\* the method
TraceCaptureEnds ==
    /\ tc_pc = "body"
    /\ tracing_state' = [tracing_state EXCEPT ![TraceThread] = TracerExit(@)]
    /\ live' = [live EXCEPT ![TraceThread] = @ \ {tracing_state[TraceThread]}]
    /\ tc_pc' = "done"
    /\ UNCHANGED <<next_session, stack, last_call, tc_error, tc_sessions>>
    /\ UNCHANGED traced_vars
    /\ UNCHANGED not_tracecall

\* the traced call raises: the session is abandoned
TraceBodyRaises ==
    /\ tc_pc = "body"
    /\ tracing_state' = [tracing_state EXCEPT ![TraceThread] = TracerAbandon(@)]
    /\ live' = [live EXCEPT ![TraceThread] = @ \ {tracing_state[TraceThread]}]
    /\ tc_pc' = "raised"
    /\ tc_error' = "BodyError"
    /\ UNCHANGED <<next_session, stack, last_call, tc_sessions>>
    /\ UNCHANGED traced_vars
    /\ UNCHANGED not_tracecall

TraceCallNext ==
    \/ TraceConstructs
    \/ TraceCaptureBegins
    \/ TraceCaptureEnds
    \/ TraceBodyRaises

(***************************************************************************)
(* ScriptMeta.__init__: the constant names of a class                      *)
(*                                                                         *)
(* Class 0 is ScriptModule; class n > 0 is the n-th class derived from it, *)
(* cd_classes[n].  A class lists one base or two, a later class first.     *)
(***************************************************************************)
ConstNames == {"a", "b"}

\* ScriptModule declares no __constants__
ScriptModuleDef ==
    [bases |-> <<>>, declared |-> FALSE, constants |-> {}, mro |-> <<0>>,
     constants_set |-> {}]

ClassDef(classes, c) == IF c = 0 THEN ScriptModuleDef ELSE classes[c]

\* the base lists a class statement may name when n classes exist
BaseLists(n) ==
    {<<p>> : p \in 0..n} \cup {pq \in (0..n) \X (0..n) : pq[1] > pq[2]}

InSeq(x, s) == \E i \in 1..Len(s) : s[i] = x

RECURSIVE C3Merge(_)
\* the merge of the C3 linearization: the first head that is in no tail
\* comes next
C3Merge(seqs) ==
    LET rest == SelectSeq(seqs, LAMBDA s : s # <<>>)
        Good(i) == \A j \in 1..Len(rest) : ~InSeq(Head(rest[i]), Tail(rest[j]))
        cands == {i \in 1..Len(rest) : Good(i)}
    IN  IF rest = <<>> THEN [ok |-> TRUE, mro |-> <<>>]
        ELSE IF cands = {} THEN [ok |-> FALSE, mro |-> <<>>]
        ELSE LET i == CHOOSE i \in cands : \A j \in cands : i <= j
                 c == Head(rest[i])
                 r == C3Merge([j \in 1..Len(rest) |->
                                  IF Head(rest[j]) = c THEN Tail(rest[j]) ELSE rest[j]])
             IN  [ok |-> r.ok, mro |-> <<c>> \o r.mro]

\* cls.__mro__ of a new class c with the given bases
Mro(classes, c, bases) ==
    LET r == C3Merge([i \in 1..Len(bases) |-> ClassDef(classes, bases[i]).mro]
                     \o <<bases>>)
    IN  [ok |-> r.ok, mro |-> <<c>> \o r.mro]

\* getattr(cls, '__constants__', ()): the declaration of the first class of
\* the MRO that has one
GetattrConstants(classes, own, mro) ==
    LET decl(c) == IF c = mro[1] THEN own ELSE ClassDef(classes, c)
        with == {i \in 1..Len(mro) : decl(mro[i]).declared}
    IN  IF with = {} THEN {}
        ELSE decl(mro[CHOOSE i \in with : \A j \in with : i <= j]).constants

\* getattr(super(cls), '_constants_set', set()): super(cls) is an unbound
\* super object, its attributes are those of the super object itself and
\* not those of the classes of the MRO, so the default is what comes back
GetattrSuperConstantsSet(classes, mro) == {}

\* lines 788-789: cls._constants_set
ClassConstantsSet(classes, own, mro) ==
    GetattrConstants(classes, own, mro) \cup GetattrSuperConstantsSet(classes, mro)

ClassDefOff == cd_classes = <<>>

ClassDefInit == cd_classes = <<>>

\* class C(bases): __constants__ = [...]   (or no such line)
DefineClass(bases, declared, constants) ==
    /\ Len(cd_classes) < MaxDefs
    /\ LET c == Len(cd_classes) + 1
           own == [bases |-> bases, declared |-> declared, constants |-> constants]
           r == Mro(cd_classes, c, bases)
       IN  /\ r.ok
           /\ cd_classes' = Append(cd_classes,
                  [bases |-> bases, declared |-> declared, constants |-> constants,
                   mro |-> r.mro,
                   constants_set |-> ClassConstantsSet(cd_classes, own, r.mro)])
    /\ UNCHANGED not_classdef

ClassDefNext ==
    \E bases \in BaseLists(Len(cd_classes)) :
        \E constants \in SUBSET ConstNames :
            DefineClass(bases, constants # {}, constants)

(***************************************************************************)
(* The builtin table: _get_builtin_table, _register_builtin, _find_builtin *)
(***************************************************************************)
\* id(fn) of the callables of the program
Callables == 1..NumCallables

\* no entry for an identity: what dict.get returns for it
NoBuiltin == "None"

\* dir(torch) and dir(torch.nn.functional), in order: two functions, a
\* member that is not callable, and one function that both modules hold,
\* under different names
TorchMembers ==
    <<[name |-> "add", id |-> 1, callable |-> TRUE],
      [name |-> "e", id |-> 0, callable |-> FALSE],
      [name |-> "relu", id |-> 2, callable |-> TRUE]>>

FunctionalMembers ==
    <<[name |-> "relu", id |-> 2, callable |-> TRUE],
      [name |-> "threshold", id |-> 1, callable |-> TRUE]>>

\* the operator names given to _register_builtin
RegisteredOps == {"aten::add", "my::op"}

\* "aten::" + name
Aten(name) ==
    CASE name = "add" -> "aten::add"
      [] name = "relu" -> "aten::relu"
      [] name = "threshold" -> "aten::threshold"
      [] name = "e" -> "aten::e"

RECURSIVE RegisterAllOf(_, _)
\* register_all(mod): every callable member is entered under "aten::" + name
RegisterAllOf(entries, members) ==
    IF members = <<>> THEN entries
    ELSE RegisterAllOf(
            IF Head(members).callable
            THEN [entries EXCEPT ![Head(members).id] = Aten(Head(members).name)]
            ELSE entries,
            Tail(members))

\* _builtin_table = None
NoTable == [built |-> FALSE, entries |-> [c \in Callables |-> NoBuiltin]]

\* _get_builtin_table()
GetBuiltinTableRebuilds(table) ==
    [built |-> TRUE,
     entries |-> RegisterAllOf(RegisterAllOf(NoTable.entries, TorchMembers),
                               FunctionalMembers)]

GetBuiltinTable(table) ==
    IF table.built THEN table
    ELSE [built |-> TRUE,
          entries |-> RegisterAllOf(RegisterAllOf(NoTable.entries, TorchMembers),
                                    FunctionalMembers)]

\* the identities that have an entry
InTable(table) == {c \in Callables : table.entries[c] # NoBuiltin}

NoBuiltinCall == [op |-> "none", fn |-> 0, name |-> NoBuiltin, before |-> NoTable]

BuiltinOff ==
    /\ bt_table = NoTable
    /\ bt_ever = {}
    /\ bt_explicit = [c \in Callables |-> NoBuiltin]
    /\ bt_first = "none"
    /\ bt_last = NoBuiltinCall

BuiltinInit ==
    /\ bt_table = NoTable
    /\ bt_ever = {}
    /\ bt_explicit = [c \in Callables |-> NoBuiltin]
    /\ bt_first = "none"
    /\ bt_last = NoBuiltinCall

\* _get_builtin_table()[id(fn)] = op, with the item stored in the table
\* as it is before _get_builtin_table has run
BuiltinSetItemBeforePopulation(table, fn, op) ==
    GetBuiltinTable([table EXCEPT !.entries[fn] = op])

\* _get_builtin_table()[id(fn)] = op: the call that yields the table is
\* evaluated first, the item is stored in what it returns
BuiltinSetItem(table, fn, op) ==
    [GetBuiltinTable(table) EXCEPT !.entries[fn] = op]

\* _register_builtin(fn, op)
RegisterBuiltin(fn, op) ==
    /\ LET table == BuiltinSetItem(bt_table, fn, op)
       IN  /\ bt_table' = table
           /\ bt_ever' = bt_ever \cup InTable(GetBuiltinTable(bt_table)) \cup InTable(table)
    /\ bt_explicit' = [bt_explicit EXCEPT ![fn] = op]
    /\ bt_first' = IF bt_table.built THEN bt_first ELSE "register"
    /\ bt_last' = [op |-> "register", fn |-> fn, name |-> op, before |-> bt_table]
    /\ UNCHANGED not_builtin

\* _find_builtin(fn)
FindBuiltin(fn) ==
    /\ LET table == GetBuiltinTable(bt_table)
       IN  /\ bt_table' = table
           /\ bt_ever' = bt_ever \cup InTable(table)
           /\ bt_last' = [op |-> "find", fn |-> fn, name |-> table.entries[fn],
                          before |-> bt_table]
    /\ bt_first' = IF bt_table.built THEN bt_first ELSE "find"
    /\ UNCHANGED bt_explicit
    /\ UNCHANGED not_builtin

BuiltinNext ==
    \/ \E fn \in Callables, op \in RegisteredOps : RegisterBuiltin(fn, op)
    \/ \E fn \in Callables : FindBuiltin(fn)

(***************************************************************************)
(* scope(scope_name): push_scope on entry, pop_scope in the finally clause *)
(***************************************************************************)
\* the names given to scope
ScopeNames == {"conv", "fc"}

ScopeSessions == 1..MaxScopeSessions

\* how the body of a with-block is left: it returns, or it raises
ScopeRaises == {"BodyError", "KeyboardInterrupt"}

\* tracing_state.push_scope(scope_name)
PushScope(names, name) == Append(names, name)

\* tracing_state.pop_scope()
PopScope(names) ==
    IF names = <<>> THEN names ELSE SubSeq(names, 1, Len(names) - 1)

\* lines 51-53: tracing_state = torch._C._get_tracing_state();
\* if tracing_state: tracing_state.push_scope(scope_name)
ScopePushes(state) == state # NoSession

\* a variant of ScopePops without try/finally: the pop follows the yield
\* and runs only when the body returns
ScopePopsOnReturn(state, raised) == state # NoSession /\ raised = "none"

\* lines 54-58: try: yield; finally: if tracing_state: tracing_state.pop_scope();
\* the test is on the state that was read on entry
ScopePops(state, raised) == state # NoSession

\* a with-block in progress: the state read on entry, the stack of scopes
\* of that session as the block found it, and an exception that a nested
\* block has let through to the body
ScopeFrame(state, name, before) ==
    [state |-> state, name |-> name, before |-> before, pending |-> "none"]

NoScopeUse ==
    [used |-> FALSE, state |-> NoSession, name |-> "none", before |-> <<>>,
     after |-> <<>>, pushed |-> FALSE, popped |-> FALSE, raised |-> "none"]

ScopeTop == sp_frames[Len(sp_frames)]

ScopeOff ==
    /\ sp_tracing = NoSession
    /\ sp_next = 1
    /\ sp_scopes = [s \in ScopeSessions |-> <<>>]
    /\ sp_frames = <<>>
    /\ sp_last = NoScopeUse

ScopeInit ==
    /\ sp_tracing = NoSession
    /\ sp_next = 1
    /\ sp_scopes = [s \in ScopeSessions |-> <<>>]
    /\ sp_frames = <<>>
    /\ sp_last = NoScopeUse

\* torch._C._tracer_enter: a session begins, before or within a with-block
ScopeSessionBegins ==
    /\ sp_tracing = NoSession
    /\ sp_next <= MaxScopeSessions
    /\ sp_frames # <<>> => ScopeTop.pending = "none"
    /\ sp_tracing' = sp_next
    /\ sp_next' = sp_next + 1
    /\ UNCHANGED <<sp_scopes, sp_frames, sp_last>>
    /\ UNCHANGED not_scope

\* torch._C._tracer_exit / _tracer_abandon: the session ends; the object
\* that a with-block has read on entry stays with that block
ScopeSessionEnds ==
    /\ sp_tracing # NoSession
    /\ sp_tracing' = NoSession
    /\ UNCHANGED <<sp_next, sp_scopes, sp_frames, sp_last>>
    /\ UNCHANGED not_scope

\* lines 51-55: `with scope(name):` is entered, up to the yield
ScopeEnter(name) ==
    /\ Len(sp_frames) < MaxScopeNesting
    /\ sp_frames # <<>> => ScopeTop.pending = "none"
    /\ LET state == sp_tracing
           before == IF state = NoSession THEN <<>> ELSE sp_scopes[state]
       IN  /\ sp_frames' = Append(sp_frames, ScopeFrame(state, name, before))
           /\ sp_scopes' = IF ScopePushes(state)
                             THEN [sp_scopes EXCEPT ![state] = PushScope(@, name)]
                             ELSE sp_scopes
    /\ UNCHANGED <<sp_tracing, sp_next, sp_last>>
    /\ UNCHANGED not_scope

\* the body handles the exception that a nested with-block let through
ScopeBodySwallows ==
    /\ sp_frames # <<>>
    /\ ScopeTop.pending # "none"
    /\ sp_frames' = [sp_frames EXCEPT ![Len(sp_frames)].pending = "none"]
    /\ UNCHANGED <<sp_tracing, sp_next, sp_scopes, sp_last>>
    /\ UNCHANGED not_scope

\* lines 55-58: the body is left, by returning (raised = "none") or with an
\* exception, the finally clause runs and the exception goes on to the
\* enclosing block
ScopeLeave(raised) ==
    /\ sp_frames # <<>>
    /\ IF ScopeTop.pending = "none" THEN TRUE ELSE raised = ScopeTop.pending
    /\ LET f == ScopeTop
           pops == ScopePops(f.state, raised)
           scopes == IF pops THEN [sp_scopes EXCEPT ![f.state] = PopScope(@)]
                             ELSE sp_scopes
           rest == SubSeq(sp_frames, 1, Len(sp_frames) - 1)
       IN  /\ sp_scopes' = scopes
           /\ sp_frames' = IF rest # <<>> /\ raised # "none"
                             THEN [rest EXCEPT ![Len(rest)].pending = raised]
                             ELSE rest
           /\ sp_last' = [used |-> TRUE, state |-> f.state, name |-> f.name,
                          before |-> f.before,
                          after |-> IF f.state = NoSession THEN <<>>
                                    ELSE scopes[f.state],
                          pushed |-> ScopePushes(f.state), popped |-> pops,
                          raised |-> raised]
    /\ UNCHANGED <<sp_tracing, sp_next>>
    /\ UNCHANGED not_scope

ScopeNext ==
    \/ ScopeSessionBegins
    \/ ScopeSessionEnds
    \/ \E name \in ScopeNames : ScopeEnter(name)
    \/ ScopeBodySwallows
    \/ \E raised \in {"none"} \cup ScopeRaises : ScopeLeave(raised)

(***************************************************************************)
(* ScriptMeta.__init__ and init_then_register: the script methods of a     *)
(* class, from the definition of the class to each of its instances        *)
(*                                                                         *)
(* The classes derive from ScriptModule directly and their initializers    *)
(* call the one of ScriptModule once.                                      *)
(***************************************************************************)
\* what the body of a class binds a name to: the stub that script_method
\* returns, a plain function, or nothing
AttrKinds == {"stub", "function", "absent"}

ClassAttrs == [StubNames -> AttrKinds]

\* lines 780-784: the stubs among sorted(attrs.items()), appended to methods
ScriptMetaMethods(c, attrs) ==
    LET names == SelectSeq(StubOrder, LAMBDA n : attrs[n] = "stub")
    IN  [i \in 1..Len(names) |-> ScriptMethodStub(c, names[i])]

\* line 782: delattr(cls, k) for every stub
ScriptMetaDelattr(attrs) ==
    [n \in StubNames |-> IF attrs[n] = "stub" THEN "absent" ELSE attrs[n]]

\* a variant of MethodsAfterRegistration in which the stubs are dropped
\* once they have been compiled
MethodsDiscarded(methods) == <<>>

\* lines 791-800: init_then_register reads the list `methods` of its closure
\* and neither clears nor rebinds it
MethodsAfterRegistration(methods) == methods

RECURSIVE CountCompiles(_, _)
\* the compilations that self._create_methods(defs, rcbs) performs
CountCompiles(count, defs) ==
    IF defs = <<>> THEN count
    ELSE CountCompiles([count EXCEPT ![Head(defs).name] = @ + 1], Tail(defs))

StubsOff ==
    /\ sq_classes = <<>>
    /\ sq_instances = <<>>
    /\ sq_compiles = <<>>

StubsInit ==
    /\ sq_classes = <<>>
    /\ sq_instances = <<>>
    /\ sq_compiles = <<>>

\* lines 776-803: ScriptMeta.__init__(cls, name, bases, attrs)
StubsDefineClass(attrs) ==
    /\ Len(sq_classes) < NumClasses
    /\ LET c == Len(sq_classes) + 1
       IN  sq_classes' = Append(sq_classes,
                             [attrs |-> ScriptMetaDelattr(attrs),
                              methods |-> ScriptMetaMethods(c, attrs)])
    /\ sq_compiles' = Append(sq_compiles, [n \in StubNames |-> 0])
    /\ UNCHANGED sq_instances
    /\ UNCHANGED not_stubs

\* lines 791-800: cls(...) runs init_then_register for a new instance
StubsConstruct(c) ==
    /\ Len(sq_instances) < MaxInstances
    /\ c \in 1..Len(sq_classes)
    /\ LET methods == sq_classes[c].methods
           defs == Defs(methods)
           rcbs == Rcbs(methods)
       IN  /\ sq_instances' = Append(sq_instances,
                   [cls |-> c,
                    methods |-> CreateMethods([n \in StubNames |-> NoMethod],
                                              defs, rcbs)])
           /\ sq_compiles' = [sq_compiles EXCEPT ![c] = CountCompiles(@, defs)]
           /\ sq_classes' = [sq_classes EXCEPT
                                ![c].methods = MethodsAfterRegistration(@)]
    /\ UNCHANGED not_stubs

StubsNext ==
    \/ \E attrs \in ClassAttrs : StubsDefineClass(attrs)
    \/ \E c \in 1..NumClasses : StubsConstruct(c)

(***************************************************************************)
(* _get_builtin_table, _find_builtin and _register_builtin called by       *)
(* threads: the statements of _get_builtin_table are steps of their own,   *)
(* a thread being switched out between any two of them (the code takes no  *)
(* lock)                                                                    *)
(***************************************************************************)
BuiltinThreads == {"a", "b"}

\* the dicts `_builtin_table = {}` can make: one per thread at most, since a
\* thread makes one only if it found None, and None is never stored again
BuiltinDicts == 1..Cardinality(BuiltinThreads)

\* lines 1013-1014: the namespaces register_all is called on, in order
TrustedNamespaces == <<TorchMembers, FunctionalMembers>>

\* the callables of the trusted namespaces
TrustedCallables ==
    UNION {{m[i].id : i \in {j \in 1..Len(m) : m[j].callable}} :
              m \in {TorchMembers, FunctionalMembers}}

\* the operator a thread registers
ThreadOps == {"my::op"}

\* a variant of the test of line 1004 that never finds the table
BuiltinTableIsSetNever(global) == FALSE

\* line 1004: _builtin_table is not None
BuiltinTableIsSet(global) == global # 0

NoThreadCall == [op |-> "none", fn |-> 0, name |-> NoBuiltin]

RaceOff ==
    /\ br_global = 0
    /\ br_dicts = [d \in BuiltinDicts |-> NoTable.entries]
    /\ br_pc = [t \in BuiltinThreads |-> "idle"]
    /\ br_call = [t \in BuiltinThreads |-> NoThreadCall]
    /\ br_idx = [t \in BuiltinThreads |-> 0]
    /\ br_ref = [t \in BuiltinThreads |-> 0]
    /\ br_pops = 0
    /\ br_solo = TRUE
    /\ br_missed = FALSE

\* the module has been imported: _builtin_table = None (line 998)
RaceInit ==
    /\ br_global = 0
    /\ br_dicts = [d \in BuiltinDicts |-> NoTable.entries]
    /\ br_pc = [t \in BuiltinThreads |-> "idle"]
    /\ br_call = [t \in BuiltinThreads |-> NoThreadCall]
    /\ br_idx = [t \in BuiltinThreads |-> 0]
    /\ br_ref = [t \in BuiltinThreads |-> 0]
    /\ br_pops = 0
    /\ br_solo = TRUE
    /\ br_missed = FALSE

\* the table is not yet there in full: it is None, or a register_all runs
Populating == br_global = 0 \/ \E u \in BuiltinThreads : br_pc[u] = "fill"

\* a thread calls _find_builtin(fn) or _register_builtin(fn, op)
ThreadCalls(t, op, fn, name) ==
    /\ br_pc[t] = "idle"
    /\ br_pc' = [br_pc EXCEPT ![t] = "test"]
    /\ br_call' = [br_call EXCEPT ![t] = [op |-> op, fn |-> fn, name |-> name]]
    /\ br_solo' = (br_solo /\ ~(Populating /\ \E u \in BuiltinThreads \ {t} :
                                                 br_pc[u] # "idle"))
    /\ UNCHANGED <<br_global, br_dicts, br_idx, br_ref, br_pops, br_missed>>
    /\ UNCHANGED not_race

\* lines 1004-1005: if _builtin_table is not None: return _builtin_table
ThreadTests(t) ==
    /\ br_pc[t] = "test"
    /\ IF BuiltinTableIsSet(br_global)
         THEN /\ br_ref' = [br_ref EXCEPT ![t] = br_global]
              /\ br_pc' = [br_pc EXCEPT ![t] = "use"]
         ELSE /\ br_pc' = [br_pc EXCEPT ![t] = "assign"]
              /\ UNCHANGED br_ref
    /\ UNCHANGED <<br_global, br_dicts, br_call, br_idx, br_pops, br_solo, br_missed>>
    /\ UNCHANGED not_race

\* line 1006: _builtin_table = {}
ThreadAssigns(t) ==
    /\ br_pc[t] = "assign"
    /\ br_pops < Cardinality(BuiltinDicts)
    /\ br_global' = br_pops + 1
    /\ br_pops' = br_pops + 1
    /\ br_idx' = [br_idx EXCEPT ![t] = 1]
    /\ br_pc' = [br_pc EXCEPT ![t] = "fill"]
    /\ UNCHANGED <<br_dicts, br_call, br_ref, br_solo, br_missed>>
    /\ UNCHANGED not_race

\* lines 1008-1014: one call of register_all: the items are stored in the
\* dict the global refers to when the call runs
ThreadFills(t) ==
    /\ br_pc[t] = "fill"
    /\ br_idx[t] <= Len(TrustedNamespaces)
    /\ br_dicts' = [br_dicts EXCEPT ![br_global] =
                       RegisterAllOf(@, TrustedNamespaces[br_idx[t]])]
    /\ br_idx' = [br_idx EXCEPT ![t] = @ + 1]
    /\ UNCHANGED <<br_global, br_pc, br_call, br_ref, br_pops, br_solo, br_missed>>
    /\ UNCHANGED not_race

\* line 1015: return _builtin_table
ThreadReturnsTable(t) ==
    /\ br_pc[t] = "fill"
    /\ br_idx[t] > Len(TrustedNamespaces)
    /\ br_ref' = [br_ref EXCEPT ![t] = br_global]
    /\ br_pc' = [br_pc EXCEPT ![t] = "use"]
    /\ br_idx' = [br_idx EXCEPT ![t] = 0]
    /\ UNCHANGED <<br_global, br_dicts, br_call, br_pops, br_solo, br_missed>>
    /\ UNCHANGED not_race

\* lines 1019 and 1023: the item is stored in, or read from, the dict that
\* _get_builtin_table returned
ThreadUses(t) ==
    /\ br_pc[t] = "use"
    /\ IF br_call[t].op = "register"
         THEN /\ br_dicts' = [br_dicts EXCEPT ![br_ref[t]][br_call[t].fn] =
                                 br_call[t].name]
              /\ UNCHANGED br_missed
         ELSE /\ br_missed' =
                    (\/ br_missed
                     \/ /\ br_call[t].fn \in TrustedCallables
                        /\ br_dicts[br_ref[t]][br_call[t].fn] = NoBuiltin)
              /\ UNCHANGED br_dicts
    /\ br_pc' = [br_pc EXCEPT ![t] = "idle"]
    /\ br_call' = [br_call EXCEPT ![t] = NoThreadCall]
    /\ br_ref' = [br_ref EXCEPT ![t] = 0]
    /\ UNCHANGED <<br_global, br_idx, br_pops, br_solo>>
    /\ UNCHANGED not_race

RaceNext ==
    \/ \E t \in BuiltinThreads, fn \in Callables :
          ThreadCalls(t, "find", fn, NoBuiltin)
    \/ \E t \in BuiltinThreads, fn \in Callables, op \in ThreadOps :
          ThreadCalls(t, "register", fn, op)
    \/ \E t \in BuiltinThreads : ThreadTests(t)
    \/ \E t \in BuiltinThreads : ThreadAssigns(t)
    \/ \E t \in BuiltinThreads : ThreadFills(t)
    \/ \E t \in BuiltinThreads : ThreadReturnsTable(t)
    \/ \E t \in BuiltinThreads : ThreadUses(t)

(***************************************************************************)
(* trace and the loop of _check_trace: the calls of trace that a check     *)
(* makes, and where the loop ends                                          *)
(*                                                                         *)
(* An input set is a number: 0 is example_inputs, the others are held-out  *)
(* sets.  Whether the outputs agree on an input set is left open.          *)
(***************************************************************************)
ExampleInputs == 0

HeldOutSets == 1..MaxCheckInputs

\* check_inputs: None, or a list of input sets
NoCheckInputs == [given |-> FALSE, sets |-> <<>>]

CheckInputLists ==
    {[given |-> TRUE, sets |-> s] :
        s \in UNION {[1..n -> HeldOutSets] : n \in 0..MaxCheckInputs}}

\* a variant in which the re-capture is made with the check left on
RecaptureWithCheck(inputs) ==
    [inputs |-> inputs, check_trace |-> TRUE, check_inputs |-> NoCheckInputs]

\* line 301: torch.jit.trace(func, _clone_inputs(inputs), check_trace=False,
\* **executor_options); check_inputs takes its default, None
Recapture(inputs) ==
    [inputs |-> inputs, check_trace |-> FALSE, check_inputs |-> NoCheckInputs]

\* lines 492-496: the list _check_trace is called with
CheckSets(args) ==
    IF args.check_inputs # NoCheckInputs THEN args.check_inputs.sets
    ELSE <<args.inputs>>

\* a call of trace in progress
TraceFrame(args) == [args |-> args, pc |-> "create", sets |-> <<>>, i |-> 0]

CheckLoopTop == cl_stack[Len(cl_stack)]

CheckLoopSetTop(f) == [cl_stack EXCEPT ![Len(cl_stack)] = f]

NoTraceArgs ==
    [inputs |-> ExampleInputs, check_trace |-> FALSE, check_inputs |-> NoCheckInputs]

CheckLoopOff ==
    /\ cl_args = NoTraceArgs
    /\ cl_stack = <<>>
    /\ cl_recaptures = 0
    /\ cl_examined = <<>>
    /\ cl_result = "done"

\* the program calls trace(func, example_inputs, check_trace, check_inputs)
CheckLoopInit ==
    /\ cl_args \in [inputs : {ExampleInputs}, check_trace : BOOLEAN,
                    check_inputs : CheckInputLists \cup {NoCheckInputs}]
    /\ cl_stack = <<TraceFrame(cl_args)>>
    /\ cl_recaptures = 0
    /\ cl_examined = <<>>
    /\ cl_result = "running"

\* lines 486-487: module = TopLevelTracedModule(...);
\* module._create_method_from_trace('forward', func, example_inputs)
TraceCreatesMethod ==
    /\ cl_stack # <<>>
    /\ CheckLoopTop.pc = "create"
    /\ cl_stack' = CheckLoopSetTop(
          [CheckLoopTop EXCEPT !.pc = IF CheckLoopTop.args.check_trace
                                        THEN "check" ELSE "return"])
    /\ UNCHANGED <<cl_args, cl_recaptures, cl_examined, cl_result>>
    /\ UNCHANGED not_checkloop

\* lines 490-494: if check_trace: _check_trace(check_inputs or
\* [example_inputs], ...)
TraceCallsCheck ==
    /\ cl_stack # <<>>
    /\ CheckLoopTop.pc = "check"
    /\ cl_stack' = CheckLoopSetTop(
          [CheckLoopTop EXCEPT !.pc = "loop", !.sets = CheckSets(CheckLoopTop.args),
                               !.i = 1])
    /\ UNCHANGED <<cl_args, cl_recaptures, cl_examined, cl_result>>
    /\ UNCHANGED not_checkloop

\* lines 300-301: for inputs in check_inputs: check_mod = torch.jit.trace(...)
CheckTraceRecaptures ==
    /\ cl_stack # <<>>
    /\ CheckLoopTop.pc = "loop"
    /\ CheckLoopTop.i <= Len(CheckLoopTop.sets)
    /\ Len(cl_stack) < MaxTraceDepth
    /\ cl_stack' = Append(CheckLoopSetTop([CheckLoopTop EXCEPT !.pc = "compare"]),
                          TraceFrame(Recapture(CheckLoopTop.sets[CheckLoopTop.i])))
    /\ cl_recaptures' = cl_recaptures + 1
    /\ UNCHANGED <<cl_args, cl_examined, cl_result>>
    /\ UNCHANGED not_checkloop

\* line 496: return module, to _check_trace or to the program
TraceReturns ==
    /\ cl_stack # <<>>
    /\ CheckLoopTop.pc = "return"
    /\ cl_stack' = SubSeq(cl_stack, 1, Len(cl_stack) - 1)
    /\ cl_result' = IF Len(cl_stack) = 1 THEN "module" ELSE cl_result
    /\ UNCHANGED <<cl_args, cl_recaptures, cl_examined>>
    /\ UNCHANGED not_checkloop

\* lines 377-408: the runs and comparisons on one input set agree, and the
\* loop goes on
CheckTraceAgrees ==
    /\ cl_stack # <<>>
    /\ CheckLoopTop.pc = "compare"
    /\ cl_stack' = CheckLoopSetTop([CheckLoopTop EXCEPT !.pc = "loop", !.i = @ + 1])
    /\ cl_examined' = Append(cl_examined, CheckLoopTop.sets[CheckLoopTop.i])
    /\ UNCHANGED <<cl_args, cl_recaptures, cl_result>>
    /\ UNCHANGED not_checkloop

\* lines 377-408: raise TracingCheckError(...): nothing handles it, it leaves
\* _check_trace and every call of trace in progress
CheckTraceRaises ==
    /\ cl_stack # <<>>
    /\ CheckLoopTop.pc = "compare"
    /\ cl_stack' = <<>>
    /\ cl_examined' = Append(cl_examined, CheckLoopTop.sets[CheckLoopTop.i])
    /\ cl_result' = "TracingCheckError"
    /\ UNCHANGED <<cl_args, cl_recaptures>>
    /\ UNCHANGED not_checkloop

\* line 300: the list is exhausted, _check_trace returns
CheckTraceEnds ==
    /\ cl_stack # <<>>
    /\ CheckLoopTop.pc = "loop"
    /\ CheckLoopTop.i > Len(CheckLoopTop.sets)
    /\ cl_stack' = CheckLoopSetTop([CheckLoopTop EXCEPT !.pc = "return"])
    /\ UNCHANGED <<cl_args, cl_recaptures, cl_examined, cl_result>>
    /\ UNCHANGED not_checkloop

CheckLoopNext ==
    \/ TraceCreatesMethod
    \/ TraceCallsCheck
    \/ CheckTraceRecaptures
    \/ TraceReturns
    \/ CheckTraceAgrees
    \/ CheckTraceRaises
    \/ CheckTraceEnds

(***************************************************************************)
(* TracedModule.__setattr__ and _freeze: the attributes of a traced module *)
(* during and after its construction                                       *)
(*                                                                         *)
(* The module has the attributes of its __dict__, its submodules, and the  *)
(* attributes of its class.  The values assigned are plain values and      *)
(* modules; to the name of a submodule only modules are assigned.          *)
(***************************************************************************)
FreezeNames == {"_name", "training", "child", "note", "forward"}

\* the attributes that the class defines
FreezeClassAttrs == {"forward"}

PlainValues == {"x", "y"}

Absent == "absent"

\* hasattr(self, attr)
TracedHasAttr(mod, attr) ==
    \/ attr \in FreezeClassAttrs
    \/ mod.dict[attr] # Absent
    \/ Has(mod.modules, attr)

\* what is assigned: a plain value, or a module
PlainValue(p) == [module |-> FALSE, plain |-> p, obj |-> NoObject]

ModuleValue(o) == [module |-> TRUE, plain |-> Absent, obj |-> o]

FreezeValues ==
    {PlainValue(p) : p \in PlainValues}
        \cup {ModuleValue(o) : o \in {x \in Objects : x.script}}

IsModuleValue(value) == value.module

\* Module.__setattr__: a module goes to self._modules[name], the name being
\* removed from __dict__ first; another value goes to __dict__
ModuleSetAttr(mod, attr, value) ==
    IF IsModuleValue(value)
      THEN LET r == ModuleDictSetItem(mod.modules, mod.native, TRUE, attr, value.obj)
           IN  [outcome |-> r.outcome,
                mod |-> [mod EXCEPT !.dict[attr] = Absent,
                                    !.modules = r.py, !.native = r.native]]
      ELSE [outcome |-> "ok", mod |-> [mod EXCEPT !.dict[attr] = value.plain]]

\* lines 828-830: ScriptModule.__setattr__ for a name that is no constant
\* (TracedModule declares none)
ScriptModuleSetAttr(mod, attr, value) == ModuleSetAttr(mod, attr, value)

\* a variant of __setattr__ that does not look at __frozen
TracedModuleSetAttrUnfrozen(mod, attr, value) == ScriptModuleSetAttr(mod, attr, value)

\* lines 940-943: TracedModule.__setattr__
TracedModuleSetAttr(mod, attr, value) ==
    IF ~mod.frozen \/ TracedHasAttr(mod, attr)
      THEN ScriptModuleSetAttr(mod, attr, value)
      ELSE [outcome |-> "FrozenError", mod |-> mod]

\* lines 934-935: _freeze: self.__frozen = True, an assignment that
\* __setattr__ lets through: __frozen is the False of the class until then,
\* and an attribute of the instance that exists afterwards
Freeze(mod) == [mod EXCEPT !.frozen = TRUE]

\* Module.__init__ and ScriptModule.__init__ have run: training is set,
\* there are no submodules, __frozen is the False of the class
NewTracedModule ==
    [frozen |-> FALSE,
     dict |-> [n \in FreezeNames |-> IF n = "training" THEN "x" ELSE Absent],
     modules |-> <<>>,
     native |-> <<>>]

NoFreezeAssignment ==
    [op |-> "none", attr |-> "", value |-> PlainValue(Absent), outcome |-> "none",
     frozen |-> FALSE, existed |-> FALSE, submodule |-> FALSE, changed |-> FALSE]

FreezeOff ==
    /\ fz_mod = NewTracedModule
    /\ fz_pc = "off"
    /\ fz_last = NoFreezeAssignment

\* TracedModule(orig): line 897 has returned
FreezeInit ==
    /\ fz_mod = NewTracedModule
    /\ fz_pc = "name"
    /\ fz_last = NoFreezeAssignment

\* an assignment of __init__ or of the program
FreezeAssign(op, attr, value) ==
    LET r == TracedModuleSetAttr(fz_mod, attr, value)
    IN  /\ fz_mod' = r.mod
        /\ fz_last' = [op |-> op, attr |-> attr, value |-> value,
                       outcome |-> r.outcome,
                       frozen |-> fz_mod.frozen,
                       existed |-> TracedHasAttr(fz_mod, attr),
                       submodule |-> Has(fz_mod.modules, attr),
                       changed |-> r.mod # fz_mod]

\* lines 901-905: self._name = ...
ConstructSetsName ==
    /\ fz_pc = "name"
    /\ \E v \in PlainValues : FreezeAssign("init", "_name", PlainValue(v))
    /\ fz_pc' = "training"
    /\ UNCHANGED not_freeze

\* line 912: self.training = orig.training
ConstructSetsTraining ==
    /\ fz_pc = "training"
    /\ \E v \in PlainValues : FreezeAssign("init", "training", PlainValue(v))
    /\ fz_pc' = "hooks"
    /\ UNCHANGED not_freeze

\* lines 923-924: orig has hooks, and the construction ends with ValueError
ConstructRaises ==
    /\ fz_pc = "hooks"
    /\ fz_pc' = "failed"
    /\ UNCHANGED <<fz_mod, fz_last>>
    /\ UNCHANGED not_freeze

\* lines 926-927: self._modules[name] = TracedModule(submodule, ...) for the
\* submodules of orig, none or one
ConstructRegistersSubmodules ==
    /\ fz_pc = "hooks"
    /\ \/ UNCHANGED fz_mod
       \/ \E v \in {o \in Objects : o.script} :
             LET r == ModuleDictSetItem(fz_mod.modules, fz_mod.native, TRUE, "child", v)
             IN  fz_mod' = [fz_mod EXCEPT !.modules = r.py, !.native = r.native]
    /\ fz_pc' = "freeze"
    /\ UNCHANGED fz_last
    /\ UNCHANGED not_freeze

\* line 929: self._freeze(), and __init__ returns
ConstructFreezes ==
    /\ fz_pc = "freeze"
    /\ fz_mod' = Freeze(fz_mod)
    /\ fz_pc' = "constructed"
    /\ UNCHANGED fz_last
    /\ UNCHANGED not_freeze

\* the program assigns to an attribute of the traced module
ProgramAssigns(attr, value) ==
    /\ fz_pc = "constructed"
    /\ Has(fz_mod.modules, attr) => IsModuleValue(value)
    /\ FreezeAssign("program", attr, value)
    /\ UNCHANGED fz_pc
    /\ UNCHANGED not_freeze

FreezeNext ==
    \/ ConstructSetsName
    \/ ConstructSetsTraining
    \/ ConstructRaises
    \/ ConstructRegistersSubmodules
    \/ ConstructFreezes
    \/ \E attr \in FreezeNames, value \in FreezeValues :
          ProgramAssigns(attr, value)

(***************************************************************************)
(* _disable_tracing: __enter__ keeps the tracing state in the context      *)
(* object and clears it, __exit__ sets it back                             *)
(*                                                                         *)
(* A with-block uses a context object: one that is made for it, or one     *)
(* that an enclosing with-block is using.  The blocks begin no capture.    *)
(***************************************************************************)
DisableObjects == 1..MaxDisableNesting

\* the tracing states: 0 is None
DisableStates == 0..2

\* a variant of __exit__ that sets the tracing state to None
DisableTracingExitClears(saved, o) == 0

\* line 1032: torch._C._set_tracing_state(self.state)
DisableTracingExit(saved, o) == saved[o]

\* line 1028: self.state = torch._C._get_tracing_state()
DisableTracingEnter(saved, o, state) == [saved EXCEPT ![o] = state]

\* the context objects of the with-blocks in progress
DisableInUse == {dt_frames[i].obj : i \in 1..Len(dt_frames)}

NoDisableExit ==
    [op |-> "none", entry |-> 0, restored |-> 0, reentered |-> FALSE,
     nested |-> FALSE, raised |-> FALSE]

DisableOff ==
    /\ dt_state = 0
    /\ dt_saved = [o \in DisableObjects |-> 0]
    /\ dt_frames = <<>>
    /\ dt_last = NoDisableExit

\* no with-block has begun; a capture may be in progress
DisableInit ==
    /\ dt_state \in DisableStates
    /\ dt_saved = [o \in DisableObjects |-> 0]
    /\ dt_frames = <<>>
    /\ dt_last = NoDisableExit

\* outside the with-blocks a capture begins or ends
DisableSessionChanges ==
    /\ dt_frames = <<>>
    /\ \E s \in DisableStates \ {dt_state} : dt_state' = s
    /\ UNCHANGED <<dt_saved, dt_frames, dt_last>>
    /\ UNCHANGED not_disable

\* lines 1027-1029: __enter__ of the context object o
DisableEnter(o) ==
    /\ Len(dt_frames) < MaxDisableNesting
    /\ dt_saved' = DisableTracingEnter(dt_saved, o, dt_state)
    /\ dt_state' = 0
    /\ dt_frames' =
          Append([i \in 1..Len(dt_frames) |->
                     [dt_frames[i] EXCEPT !.nested = TRUE,
                                          !.reentered = @ \/ dt_frames[i].obj = o]],
                 [obj |-> o, entry |-> dt_state, nested |-> FALSE,
                  reentered |-> o \in DisableInUse])
    /\ UNCHANGED dt_last
    /\ UNCHANGED not_disable

\* lines 1031-1033: __exit__ of the innermost with-block, whose body has
\* returned or raised
DisableExit(raised) ==
    /\ dt_frames # <<>>
    /\ LET top == dt_frames[Len(dt_frames)]
       IN  /\ dt_state' = DisableTracingExit(dt_saved, top.obj)
           /\ dt_saved' = [dt_saved EXCEPT ![top.obj] = 0]
           /\ dt_last' = [op |-> "exit", entry |-> top.entry,
                          restored |-> DisableTracingExit(dt_saved, top.obj),
                          reentered |-> top.reentered, nested |-> top.nested,
                          raised |-> raised]
    /\ dt_frames' = SubSeq(dt_frames, 1, Len(dt_frames) - 1)
    /\ UNCHANGED not_disable

DisableNext ==
    \/ DisableSessionChanges
    \/ \E o \in DisableObjects : DisableEnter(o)
    \/ \E raised \in BOOLEAN : DisableExit(raised)

(***************************************************************************)
(* _unique_state_dict and the module state of LegacyTracedModule.forward   *)
(*                                                                         *)
(* An ordered dictionary is the sequence of its entries in insertion       *)
(* order; an entry is a name and id(v) of its tensor.                      *)
(***************************************************************************)
StateKeys == 1..MaxStateEntries

StateTensors == 1..MaxStateTensors

StateEntries == [key : StateKeys, id : StateTensors]

\* the state dictionaries: no name twice
StateDictsOfLen(n) ==
    {d \in [1..n -> StateEntries] :
        \A i, j \in 1..n : d[i].key = d[j].key => i = j}

StateDicts == UNION {StateDictsOfLen(n) : n \in 0..MaxStateEntries}

\* lines 99-103: the loop from the i-th item of state_dict on
RECURSIVE UniqueStateDictLoop(_, _, _, _)
UniqueStateDictLoop(state_dict, i, seen_ids, filtered_dict) ==
    IF i > Len(state_dict) THEN filtered_dict
    ELSE LET k == state_dict[i].key
             v == state_dict[i].id
             at == {j \in 1..Len(filtered_dict) : filtered_dict[j].key = k}
         IN  IF v \in seen_ids
             THEN UniqueStateDictLoop(state_dict, i + 1, seen_ids, filtered_dict)
             ELSE UniqueStateDictLoop(state_dict, i + 1, seen_ids \cup {v},
                     IF at = {}
                     THEN Append(filtered_dict, [key |-> k, id |-> v])
                     ELSE [j \in 1..Len(filtered_dict) |->
                             IF j \in at THEN [key |-> k, id |-> v]
                             ELSE filtered_dict[j]])

\* a variant that returns the state dictionary as it is
UniqueStateDictUnfiltered(state_dict) == state_dict

\* lines 95-104: _unique_state_dict
UniqueStateDict(state_dict) == UniqueStateDictLoop(state_dict, 1, {}, <<>>)

UniqueOff ==
    /\ us_dict = <<>>
    /\ us_filtered = <<>>
    /\ us_state = <<>>
    /\ us_pc = "start"

UniqueInit ==
    /\ us_dict \in StateDicts
    /\ us_filtered = <<>>
    /\ us_state = <<>>
    /\ us_pc = "start"

\* line 120: _unique_state_dict(self, keep_vars=True)
ForwardFiltersState ==
    /\ us_pc = "start"
    /\ us_filtered' = UniqueStateDict(us_dict)
    /\ us_pc' = "filtered"
    /\ UNCHANGED <<us_dict, us_state>>
    /\ UNCHANGED not_unique

\* line 120: module_state = list(... .values())
ForwardListsState ==
    /\ us_pc = "filtered"
    /\ us_state' = [j \in 1..Len(us_filtered) |-> us_filtered[j].id]
    /\ us_pc' = "listed"
    /\ UNCHANGED <<us_dict, us_filtered>>
    /\ UNCHANGED not_unique

UniqueNext ==
    \/ ForwardFiltersState
    \/ ForwardListsState

(***************************************************************************)
(* Specifications: one per component; the other components stay idle       *)
(***************************************************************************)
NoTree == [children |-> CHOOSE sh \in Shapes : TRUE, entries |-> <<>>, hooks |-> {}]

TracedOff == tm_orig = NoTree /\ TracedIdle

ConstOff == cs_input = Unset /\ ConstIdle

InitCapture ==
    /\ CaptureInit
    /\ TracedOff
    /\ ConstOff
    /\ ModulesInit
    /\ VerifyOff
    /\ FlattenOff
    /\ ViewsOff
    /\ TraceFnOff
    /\ ScriptOff
    /\ BuiltinOff
    /\ TraceCallOff
    /\ ClassDefOff
    /\ ScopeOff
    /\ StubsOff
    /\ RaceOff
    /\ CheckLoopOff
    /\ FreezeOff
    /\ DisableOff
    /\ UniqueOff

SpecCapture == InitCapture /\ [][CaptureNext]_vars

\* the traced body terminates: it is left by returning or by raising
BodyTerminates(t) == BodyRaise(t) \/ BodyPropagate(t) \/ BodyReturn(t)

\* the statements of forward itself run to their end
ForwardProceeds(t) ==
    ForwardEnter(t) \/ ForwardFlattenOut(t) \/ ForwardExit(t) \/ ForwardExcept(t)

\* forward under the condition that every traced body terminates; calls of
\* forward are the caller's choice and are under no condition
SpecCaptureFair ==
    /\ SpecCapture
    /\ \A t \in Contexts :
          /\ SF_vars(BodyTerminates(t))
          /\ WF_vars(ForwardProceeds(t))

InitTraced ==
    /\ CaptureInit
    /\ TracedInit
    /\ ConstOff
    /\ ModulesInit
    /\ VerifyOff
    /\ FlattenOff
    /\ ViewsOff
    /\ TraceFnOff
    /\ ScriptOff
    /\ BuiltinOff
    /\ TraceCallOff
    /\ ClassDefOff
    /\ ScopeOff
    /\ StubsOff
    /\ RaceOff
    /\ CheckLoopOff
    /\ FreezeOff
    /\ DisableOff
    /\ UniqueOff

SpecTraced == InitTraced /\ [][TracedNext]_vars

InitConst ==
    /\ CaptureInit
    /\ TracedOff
    /\ ConstInit
    /\ ModulesInit
    /\ VerifyOff
    /\ FlattenOff
    /\ ViewsOff
    /\ TraceFnOff
    /\ ScriptOff
    /\ BuiltinOff
    /\ TraceCallOff
    /\ ClassDefOff
    /\ ScopeOff
    /\ StubsOff
    /\ RaceOff
    /\ CheckLoopOff
    /\ FreezeOff
    /\ DisableOff
    /\ UniqueOff

SpecConst == InitConst /\ [][ConstNext]_vars

InitModules ==
    /\ CaptureInit
    /\ TracedOff
    /\ ConstOff
    /\ ModulesInit
    /\ VerifyOff
    /\ FlattenOff
    /\ ViewsOff
    /\ TraceFnOff
    /\ ScriptOff
    /\ BuiltinOff
    /\ TraceCallOff
    /\ ClassDefOff
    /\ ScopeOff
    /\ StubsOff
    /\ RaceOff
    /\ CheckLoopOff
    /\ FreezeOff
    /\ DisableOff
    /\ UniqueOff

SpecModules == InitModules /\ [][ModulesNext]_vars

InitVerify ==
    /\ CaptureInit
    /\ TracedOff
    /\ ConstOff
    /\ ModulesInit
    /\ VerifyInit
    /\ FlattenOff
    /\ ViewsOff
    /\ TraceFnOff
    /\ ScriptOff
    /\ BuiltinOff
    /\ TraceCallOff
    /\ ClassDefOff
    /\ ScopeOff
    /\ StubsOff
    /\ RaceOff
    /\ CheckLoopOff
    /\ FreezeOff
    /\ DisableOff
    /\ UniqueOff

SpecVerify == InitVerify /\ [][VerifyNext]_vars

InitFlatten ==
    /\ CaptureInit
    /\ TracedOff
    /\ ConstOff
    /\ ModulesInit
    /\ VerifyOff
    /\ FlattenInit
    /\ ViewsOff
    /\ TraceFnOff
    /\ ScriptOff
    /\ BuiltinOff
    /\ TraceCallOff
    /\ ClassDefOff
    /\ ScopeOff
    /\ StubsOff
    /\ RaceOff
    /\ CheckLoopOff
    /\ FreezeOff
    /\ DisableOff
    /\ UniqueOff

SpecFlatten == InitFlatten /\ [][FlattenNext]_vars

InitTraceFn ==
    /\ CaptureInit
    /\ TracedOff
    /\ ConstOff
    /\ ModulesInit
    /\ VerifyOff
    /\ FlattenOff
    /\ ViewsOff
    /\ TraceFnInit
    /\ ScriptOff
    /\ BuiltinOff
    /\ TraceCallOff
    /\ ClassDefOff
    /\ ScopeOff
    /\ StubsOff
    /\ RaceOff
    /\ CheckLoopOff
    /\ FreezeOff
    /\ DisableOff
    /\ UniqueOff

SpecTraceFn == InitTraceFn /\ [][TraceFnNext]_vars

InitScript ==
    /\ CaptureInit
    /\ TracedOff
    /\ ConstOff
    /\ ModulesInit
    /\ VerifyOff
    /\ FlattenOff
    /\ ViewsOff
    /\ TraceFnOff
    /\ ScriptInit
    /\ BuiltinOff
    /\ TraceCallOff
    /\ ClassDefOff
    /\ ScopeOff
    /\ StubsOff
    /\ RaceOff
    /\ CheckLoopOff
    /\ FreezeOff
    /\ DisableOff
    /\ UniqueOff

SpecScript == InitScript /\ [][ScriptNext]_vars

InitViews ==
    /\ CaptureInit
    /\ TracedOff
    /\ ConstOff
    /\ ModulesInit
    /\ VerifyOff
    /\ FlattenOff
    /\ ViewsInit
    /\ TraceFnOff
    /\ ScriptOff
    /\ BuiltinOff
    /\ TraceCallOff
    /\ ClassDefOff
    /\ ScopeOff
    /\ StubsOff
    /\ RaceOff
    /\ CheckLoopOff
    /\ FreezeOff
    /\ DisableOff
    /\ UniqueOff

SpecViews == InitViews /\ [][ViewsNext]_vars

InitTraceCall ==
    /\ CaptureInit
    /\ TraceTreeInit
    /\ ConstOff
    /\ ModulesInit
    /\ VerifyOff
    /\ FlattenOff
    /\ ViewsOff
    /\ TraceFnOff
    /\ ScriptOff
    /\ BuiltinOff
    /\ TraceCallInit
    /\ ClassDefOff
    /\ ScopeOff
    /\ StubsOff
    /\ RaceOff
    /\ CheckLoopOff
    /\ FreezeOff
    /\ DisableOff
    /\ UniqueOff

SpecTraceCall == InitTraceCall /\ [][TraceCallNext]_vars

InitClassDef ==
    /\ CaptureInit
    /\ TracedOff
    /\ ConstOff
    /\ ModulesInit
    /\ VerifyOff
    /\ FlattenOff
    /\ ViewsOff
    /\ TraceFnOff
    /\ ScriptOff
    /\ BuiltinOff
    /\ TraceCallOff
    /\ ClassDefInit
    /\ ScopeOff
    /\ StubsOff
    /\ RaceOff
    /\ CheckLoopOff
    /\ FreezeOff
    /\ DisableOff
    /\ UniqueOff

SpecClassDef == InitClassDef /\ [][ClassDefNext]_vars

InitBuiltin ==
    /\ CaptureInit
    /\ TracedOff
    /\ ConstOff
    /\ ModulesInit
    /\ VerifyOff
    /\ FlattenOff
    /\ ViewsOff
    /\ TraceFnOff
    /\ ScriptOff
    /\ BuiltinInit
    /\ TraceCallOff
    /\ ClassDefOff
    /\ ScopeOff
    /\ StubsOff
    /\ RaceOff
    /\ CheckLoopOff
    /\ FreezeOff
    /\ DisableOff
    /\ UniqueOff

SpecBuiltin == InitBuiltin /\ [][BuiltinNext]_vars

InitScope ==
    /\ CaptureInit
    /\ TracedOff
    /\ ConstOff
    /\ ModulesInit
    /\ VerifyOff
    /\ FlattenOff
    /\ ViewsOff
    /\ TraceFnOff
    /\ ScriptOff
    /\ BuiltinOff
    /\ TraceCallOff
    /\ ClassDefOff
    /\ ScopeInit
    /\ StubsOff
    /\ RaceOff
    /\ CheckLoopOff
    /\ FreezeOff
    /\ DisableOff
    /\ UniqueOff

SpecScope == InitScope /\ [][ScopeNext]_vars

InitStubs ==
    /\ CaptureInit
    /\ TracedOff
    /\ ConstOff
    /\ ModulesInit
    /\ VerifyOff
    /\ FlattenOff
    /\ ViewsOff
    /\ TraceFnOff
    /\ ScriptOff
    /\ BuiltinOff
    /\ TraceCallOff
    /\ ClassDefOff
    /\ ScopeOff
    /\ StubsInit
    /\ RaceOff
    /\ CheckLoopOff
    /\ FreezeOff
    /\ DisableOff
    /\ UniqueOff

SpecStubs == InitStubs /\ [][StubsNext]_vars

InitBuiltinThreads ==
    /\ CaptureInit
    /\ TracedOff
    /\ ConstOff
    /\ ModulesInit
    /\ VerifyOff
    /\ FlattenOff
    /\ ViewsOff
    /\ TraceFnOff
    /\ ScriptOff
    /\ BuiltinOff
    /\ TraceCallOff
    /\ ClassDefOff
    /\ ScopeOff
    /\ StubsOff
    /\ RaceInit
    /\ CheckLoopOff
    /\ FreezeOff
    /\ DisableOff
    /\ UniqueOff

SpecBuiltinThreads == InitBuiltinThreads /\ [][RaceNext]_vars

InitCheckLoop ==
    /\ CaptureInit
    /\ TracedOff
    /\ ConstOff
    /\ ModulesInit
    /\ VerifyOff
    /\ FlattenOff
    /\ ViewsOff
    /\ TraceFnOff
    /\ ScriptOff
    /\ BuiltinOff
    /\ TraceCallOff
    /\ ClassDefOff
    /\ ScopeOff
    /\ StubsOff
    /\ RaceOff
    /\ CheckLoopInit
    /\ FreezeOff
    /\ DisableOff
    /\ UniqueOff

SpecCheckLoop == InitCheckLoop /\ [][CheckLoopNext]_vars

InitFreeze ==
    /\ CaptureInit
    /\ TracedOff
    /\ ConstOff
    /\ ModulesInit
    /\ VerifyOff
    /\ FlattenOff
    /\ ViewsOff
    /\ TraceFnOff
    /\ ScriptOff
    /\ BuiltinOff
    /\ TraceCallOff
    /\ ClassDefOff
    /\ ScopeOff
    /\ StubsOff
    /\ RaceOff
    /\ CheckLoopOff
    /\ FreezeInit
    /\ DisableOff
    /\ UniqueOff

SpecFreeze == InitFreeze /\ [][FreezeNext]_vars

InitDisable ==
    /\ CaptureInit
    /\ TracedOff
    /\ ConstOff
    /\ ModulesInit
    /\ VerifyOff
    /\ FlattenOff
    /\ ViewsOff
    /\ TraceFnOff
    /\ ScriptOff
    /\ BuiltinOff
    /\ TraceCallOff
    /\ ClassDefOff
    /\ ScopeOff
    /\ StubsOff
    /\ RaceOff
    /\ CheckLoopOff
    /\ FreezeOff
    /\ DisableInit
    /\ UniqueOff

SpecDisable == InitDisable /\ [][DisableNext]_vars

InitUnique ==
    /\ CaptureInit
    /\ TracedOff
    /\ ConstOff
    /\ ModulesInit
    /\ VerifyOff
    /\ FlattenOff
    /\ ViewsOff
    /\ TraceFnOff
    /\ ScriptOff
    /\ BuiltinOff
    /\ TraceCallOff
    /\ ClassDefOff
    /\ ScopeOff
    /\ StubsOff
    /\ RaceOff
    /\ CheckLoopOff
    /\ FreezeOff
    /\ DisableOff
    /\ UniqueInit

SpecUnique == InitUnique /\ [][UniqueNext]_vars

(***************************************************************************)
(* Claims about the Capture Session Manager                                *)
(***************************************************************************)
\* C1 (as stated): whenever an exception raised in the try block of a capture
\* that had begun leaves forward, abandon() was invoked first, the exception
\* that leaves is the one that was raised, and no session is Capturing.
C1_AbandonBeforeAnyExceptionLeaves ==
    \A t \in Contexts :
        (last_call[t].result = "raised" /\ last_call[t].began)
            => /\ last_call[t].abandoned
               /\ last_call[t].exc = last_call[t].raised
               /\ tracing_state[t] = NoSession

\* C2: a begin attempted while a session is Capturing in the same context
\* fails at once with ReentrantCapture and leaves that session as it was; a
\* begin fails for no other reason; and in every reachable state at most one
\* session is live per context, the one the tracing state names.
C2_ReentrantBeginFails ==
    \A t \in Contexts :
        /\ (last_call[t].result = "raised" /\ ~last_call[t].began)
              => /\ last_call[t].exc = "ReentrantCapture"
                 /\ last_call[t].pre # NoSession
                 /\ tracing_state[t] = last_call[t].pre
                 /\ last_call[t].pre \in live[t]
        /\ \A i \in 1..Len(stack[t]) :
              stack[t][i].began => stack[t][i].pre = NoSession
        /\ Cardinality(live[t]) <= 1
        /\ live[t] = IF tracing_state[t] = NoSession THEN {} ELSE {tracing_state[t]}

\* C2 witness: a nested begin has just failed while the outer session is Capturing
C2_Witness ==
    \E t \in Contexts :
        /\ last_call[t].result = "raised"
        /\ ~last_call[t].began
        /\ Len(stack[t]) = 1
        /\ Top(t).pc = "body"
        /\ tracing_state[t] = Top(t).sid
        /\ tracing_state[t] # NoSession

\* C3: after abandon() the context is Idle and a begin would succeed; a call
\* of forward that directly follows an abandoned one never fails to begin.
C3_BeginAfterAbandon ==
    \A t \in Contexts :
        /\ last_call[t].abandoned
              => /\ tracing_state[t] = NoSession
                 /\ live[t] = {}
                 /\ TracerEnter(tracing_state[t], next_session).ok
        /\ \A i \in 1..Len(stack[t]) :
              (stack[t][i].after_abandon /\ stack[t][i].pc # "enter")
                 => stack[t][i].began
        /\ (last_call[t].after_abandon /\ last_call[t].result # "none")
              => last_call[t].began

\* C3 witness: a session that was begun directly after an abandoned capture
C3_Witness ==
    \E t \in Contexts :
        /\ stack[t] # <<>>
        /\ Top(t).after_abandon
        /\ Top(t).began
        /\ Top(t).pc = "body"
        /\ tracing_state[t] = Top(t).sid

(***************************************************************************)
(* Claims about TracedModule construction                                  *)
(***************************************************************************)
\* The tree in traversal order: a module's parameters, its buffers, the test
\* of its hooks, then its submodules one after the other (a module that is
\* registered under two names is visited twice).
RECURSIVE Walk(_, _)
RECURSIVE WalkAll(_, _, _)
Walk(o, mod) ==
    [i \in 1..Len(OrigParameters(o, mod)) |->
        [kind |-> "entry", tensor |-> OrigParameters(o, mod)[i], hooked |-> FALSE]]
    \o [i \in 1..Len(OrigBuffers(o, mod)) |->
        [kind |-> "entry", tensor |-> OrigBuffers(o, mod)[i], hooked |-> FALSE]]
    \o <<[kind |-> "hooks", tensor |-> NoTensor, hooked |-> mod \in o.hooks]>>
    \o WalkAll(o, o.children[mod], 1)

WalkAll(o, cs, i) ==
    IF i > Len(cs) THEN <<>> ELSE Walk(o, cs[i]) \o WalkAll(o, cs, i + 1)

\* the entry at place i refers to a tensor that an earlier entry refers to
AliasAt(w, i) ==
    /\ w[i].kind = "entry"
    /\ w[i].tensor # NoTensor
    /\ \E j \in 1..(i - 1) : w[j].kind = "entry" /\ w[j].tensor = w[i].tensor

HooksAt(w, i) == w[i].kind = "hooks" /\ w[i].hooked

Aliased(w) == \E i \in 1..Len(w) : AliasAt(w, i)

\* C4 (as stated): whenever a tensor identity is reachable as two parameter or
\* buffer entries of the tree, construction fails with AliasingViolation.
C4_AliasedFailsWithAliasingViolation ==
    (tm_result.done /\ Aliased(Walk(tm_orig, "root")))
        => tm_result.err = "AliasingViolation"

\* C4 (amended): an aliased tree never constructs; construction stops at the
\* first problem in traversal order, so the error is AliasingViolation unless
\* the hooks of a module are tested before the second entry of the aliased
\* tensor is reached; a tree without aliasing never fails with
\* AliasingViolation; the identity set is one for the whole tree and starts
\* empty for every top-level construction (constructing again from the same
\* tree gives the same result).
C4_AliasingDetected ==
    tm_result.done =>
        LET w == Walk(tm_orig, "root")
            bad == {i \in 1..Len(w) : AliasAt(w, i) \/ HooksAt(w, i)}
            first == CHOOSE i \in bad : \A j \in bad : i <= j
        IN  /\ Aliased(w) => tm_result.err # "none"
            /\ bad = {} => tm_result.err = "none"
            /\ bad # {} => tm_result.err =
                   IF AliasAt(w, first) THEN "AliasingViolation"
                                        ELSE "HookedModuleUnsupported"
            /\ tm_result.err = "none" =>
                   tm_result.ids = {w[i].tensor : i \in 1..Len(w)} \ {NoTensor}
            /\ tm_prev.done => tm_result = tm_prev

\* C4 witness: a second construction from a tree without hooks in which a
\* parameter of one module is a buffer of another has failed as aliased
C4_Witness ==
    /\ tm_result.done
    /\ tm_prev.done
    /\ tm_orig.hooks = {}
    /\ tm_result.err = "AliasingViolation"
    /\ \E i, j \in 1..Len(tm_orig.entries) :
          /\ i < j
          /\ tm_orig.entries[i].mod # tm_orig.entries[j].mod
          /\ tm_orig.entries[i].buffer # tm_orig.entries[j].buffer
          /\ tm_orig.entries[i].tensor = tm_orig.entries[j].tensor

(***************************************************************************)
(* Claims about constants                                                  *)
(***************************************************************************)
\* C5: once a name of the constant-name set has been assigned successfully,
\* every later assignment to it fails (as a re-assignment) and changes
\* nothing, and the name keeps the value its first assignment stored, after
\* any sequence of assignments to constant and other attributes.
C5_ConstantAssignedOnce ==
    /\ \A n \in ConstantsSet :
          /\ HasAttr(cs_attrs, n) <=> cs_first[n] # Unset
          /\ cs_first[n] # Unset => cs_attrs[n] = cs_first[n]
    /\ (cs_last.name \in ConstantsSet /\ cs_last.had)
          => /\ cs_last.outcome = "ReassignConstant"
             /\ ~cs_last.changed

\* C5 witness: a different value was assigned to a constant that holds a tuple
C5_Witness ==
    /\ cs_last.name = "c"
    /\ cs_last.had
    /\ cs_last.outcome = "ReassignConstant"
    /\ cs_attrs["c"].kind = "tuple"
    /\ cs_last.value = Atom("int")
    /\ cs_first["d"] # Unset

\* the kinds of the values that are not tuples or lists, at any depth of v
RECURSIVE Leaves(_)
Leaves(v) ==
    IF v.kind \in {"tuple", "list"}
      THEN UNION {Leaves(v.items[i]) : i \in 1..Len(v.items)}
      ELSE {v.kind}

\* the kinds the claim lists: boolean, float, integer, device/layout/dtype tag
ListedKinds == {"bool", "float", "int", "device", "layout", "dtype"}

\* C6 (as stated): assigning to a constant name that has no value yet a value
\* that is not of a listed kind, nor a (nested) tuple/list of those, fails
\* with InvalidConstant.
C6_UnlistedKindsRejected ==
    (/\ cs_last.name \in ConstantsSet
     /\ ~cs_last.had
     /\ ~(Leaves(cs_last.value) \subseteq ListedKinds))
        => cs_last.outcome = "InvalidConstant"

\* what the code accepts: the listed kinds and functions, (nested)
\* tuples/lists of those, a ModuleList or a Sequential
Accepted(v) ==
    \/ v.kind \in {"ModuleList", "Sequential"}
    \/ Leaves(v) \subseteq ListedKinds \cup {"function"}

\* C6 (amended): assigning to a constant name that has no value yet fails
\* with InvalidConstant exactly when the value is not accepted (functions,
\* ModuleLists and Sequentials are accepted too); the error names the
\* accepted kinds other than Sequential, nothing is stored, and an
\* assignment of a valid value to that name then succeeds.
C6_InvalidConstantRejected ==
    /\ (cs_last.name \in ConstantsSet /\ ~cs_last.had)
          => /\ Accepted(cs_last.value) => cs_last.outcome = "ok"
             /\ ~Accepted(cs_last.value) => cs_last.outcome = "InvalidConstant"
    /\ cs_last.outcome = "InvalidConstant"
          => /\ cs_last.name \in ConstantsSet
             /\ ~cs_last.changed
             /\ cs_attrs[cs_last.name] = Unset
             /\ cs_last.named = ListedKinds
                    \cup {"function", "ModuleList", "list", "tuple"}
             /\ ScriptModuleSetattr(cs_attrs, cs_last.name, Atom("int")).outcome = "ok"
    /\ \A n \in cs_failed :
          ~HasAttr(cs_attrs, n)
             => ScriptModuleSetattr(cs_attrs, n, Atom("int")).outcome = "ok"

\* C6 witness: in a run with a tuple that holds a str, a valid value has been
\* assigned to "c" after an invalid one was refused for it
C6_Witness ==
    /\ "c" \in cs_failed
    /\ cs_input.kind = "tuple"
    /\ "str" \in Leaves(cs_input)
    /\ cs_last.name = "c"
    /\ cs_last.outcome = "ok"
    /\ cs_attrs["c"] = Atom("int")

(***************************************************************************)
(* Claims about the submodule view (SpecModules)                           *)
(***************************************************************************)
\* C7: registering a submodule under a name that is already in the view fails
\* and leaves the shadow cache and the native storage as they were, whatever
\* sort the existing and the new submodule are
C7_ReassignModuleFails ==
    (md_last.op = "setitem" /\ md_last.had)
        => /\ md_last.outcome = "ReassignModule"
           /\ ~md_last.changed
           /\ Get(md_python, md_last.k) = md_registered[md_last.k]

\* C7 witness: a Python-only submodule was refused under the name of a
\* compiled one that is in both stores
C7_Witness ==
    /\ md_last.op = "setitem"
    /\ md_last.had
    /\ md_last.outcome = "ReassignModule"
    /\ ~md_last.v.script
    /\ md_registered[md_last.k].script
    /\ md_last.v.id # md_registered[md_last.k].id
    /\ Has(md_native, md_last.k)

\* C8: after any registrations, failed ones included, a lookup of a registered
\* name returns the very object registered under it, in every lookup
C8_LookupReturnsRegistered ==
    /\ \A k \in ModNames :
          md_registered[k] # NoObject
              => ModuleDictGetItem(md_python, k) =
                     [outcome |-> "ok", result |-> md_registered[k]]
    /\ (md_last.op = "getitem" /\ md_registered[md_last.k] # NoObject)
          => (md_last.outcome = "ok" /\ md_last.result = md_registered[md_last.k])

\* C8 witness: a compiled submodule is looked up while a Python-only one is
\* registered under the other name
C8_Witness ==
    /\ md_last.op = "getitem"
    /\ md_last.outcome = "ok"
    /\ md_last.result.script
    /\ md_last.result = md_registered[md_last.k]
    /\ \E k \in ModNames : md_registered[k] # NoObject /\ ~md_registered[k].script

(***************************************************************************)
(* Claims about the check of a trace (SpecVerify)                          *)
(***************************************************************************)
\* the three classes of disagreement, stated apart from the code
Beyond(a, b, rinv) == Abs(a - b) * rinv > ATol * rinv + Abs(b)

StructureDiffers(m, c) ==
    \/ Len(m.nodes) # Len(c.nodes)
    \/ \E i \in 1..Len(m.nodes) : NodeStr(m.nodes[i]) # NodeStr(c.nodes[i])

ConstantsDiffer(m, c) ==
    \E i \in 1..Min(Len(m.nodes), Len(c.nodes)) :
        /\ m.nodes[i].kind = "prim::Constant" /\ m.nodes[i].valkind = "t"
        /\ c.nodes[i].kind = "prim::Constant" /\ c.nodes[i].valkind = "t"
        /\ Beyond(m.nodes[i].value, c.nodes[i].value, DefaultRTolInv)

OutputsDiffer(orig, check) ==
    \E i \in 1..Min(Len(orig), Len(check)) : Beyond(orig[i], check[i], CheckToleranceInv)

HasNondeterministicNode(g) == \E i \in 1..Len(g.nodes) : g.nodes[i].nondet

RECURSIVE TensorPaths(_, _)
\* the tensors of x, each with the path of item indexes that leads to it
TensorPaths(x, path) ==
    IF x.kind = "tensor" THEN {[path |-> path, id |-> x.id]}
    ELSE UNION {TensorPaths(x.items[i], Append(path, i)) : i \in 1..Len(x.items)}

RECURSIVE PathBefore(_, _)
\* p comes before q in a left-to-right walk (neither is a prefix of the other)
PathBefore(p, q) ==
    /\ p # <<>>
    /\ q # <<>>
    /\ \/ Head(p) < Head(q)
       \/ Head(p) = Head(q) /\ PathBefore(Tail(p), Tail(q))

RECURSIVE InWalkOrder(_)
\* the tensors of a set of paths in the order of a left-to-right walk
InWalkOrder(S) ==
    IF S = {} THEN <<>>
    ELSE LET first == CHOOSE p \in S : \A q \in S \ {p} : PathBefore(p.path, q.path)
         IN  <<first.id>> \o InWalkOrder(S \ {first})

RECURSIVE WithTracerInputs(_)
\* x with every tensor replaced by the placeholder the tracer made for it
WithTracerInputs(x) ==
    IF x.kind = "tensor" THEN FTensor(TracerInput(x.id))
    ELSE [x EXCEPT !.items = [i \in 1..Len(x.items) |-> WithTracerInputs(x.items[i])]]

\* C11: for every nesting x of tensors, tuples, lists and None,
\* unflatten(flatten(x)) is x, the leaf sequence keeps the tensors in their
\* left-to-right order, and the arguments the traced body receives have the
\* nesting of the arguments of the call
C11_RoundTrip ==
    /\ FlattenSupported(fl_args) =>
          LET r == Flatten(fl_args)
          IN  /\ r.error = "none"
              /\ r.vars = InWalkOrder(TensorPaths(fl_args, <<>>))
              /\ Unflatten(r.vars, r.desc) = [error |-> "none", value |-> fl_args]
    /\ fl_pc = "body" =>
          /\ fl_in_vars = InWalkOrder(TensorPaths(fl_args, <<>>))
          /\ fl_trace_inputs = WithTracerInputs(fl_args)

\* a list within a tuple, None beside it, two tensors in the order 2, 1 and a
\* module state that follows them among the inputs of the tracer
C11_Witness ==
    /\ fl_pc = "body"
    /\ fl_args = FTuple(<<FTuple(<<FNone, FList(<<FTensor(2), FTensor(1)>>)>>)>>)
    /\ fl_state = <<1>>
    /\ fl_trace_inputs.items[1].items[2].items[2] = FTensor(TracerInput(1))

(***************************************************************************)
(* Claims about the trace of a function (SpecTraceFn)                      *)
(***************************************************************************)
HasOp(func, op) == \E i \in 1..Len(func) : func[i] = op

\* the artifact has been called and func was called on the same inputs
Called == tf_last # NoFnCall

\* C12 as stated: for a function without an operation that depends on
\* tensor data, a call of the artifact on fresh inputs yields what the
\* function yields on them
C12_ArtifactEqualsFunction ==
    (Called /\ ~HasOp(tf_func, "branch")) => tf_last.traced = tf_last.direct

\* C12: the same, for a function that neither depends on tensor data nor
\* reads state the tracer does not track
C12_ArtifactEqualsTrackedFunction ==
    (Called /\ ~HasOp(tf_func, "branch") /\ ~HasOp(tf_func, "add_global"))
        => tf_last.traced = tf_last.direct

\* a traced two-operation function without branch or global, called on an
\* input other than the example
C12_Witness ==
    /\ Called
    /\ tf_artifact.kind = "module"
    /\ tf_func = <<"double", "inc">>
    /\ tf_last.input # tf_example
    /\ tf_last.traced = FnReturned(2 * tf_last.input + 1)

(***************************************************************************)
(* Claims about the wrapped initializers (SpecScript)                      *)
(***************************************************************************)
\* how often ev of class c has happened among the first n entries of the log
EventCount(ev, c, n) ==
    Cardinality({i \in 1..n : sc_log[i].ev = ev /\ sc_log[i].cls = c})

NativeInits == {i \in 1..Len(sc_log) : sc_log[i].ev = "native_init"}

\* the call that creates the instance has returned
Constructed ==
    sc_log # <<>> /\ sc_stack = <<>> /\ sc_log[Len(sc_log)].ev # "raise"

\* C13: the native base state of an instance is initialized exactly once,
\* and before any user initializer runs, however often the user
\* initializers call the base initializer and whichever classes define one
C13_NativeInitOnce ==
    /\ Cardinality(NativeInits) <= 1
    /\ \A i \in 1..Len(sc_log) :
          sc_log[i].ev = "user_enter" => \E j \in NativeInits : j < i
    /\ Constructed => Cardinality(NativeInits) = 1

\* an instance of the last class, which inherits its initializer from a
\* class whose initializer calls the base initializer twice
C13_Witness ==
    /\ Constructed
    /\ sc_type = NumClasses
    /\ ~sc_classes[NumClasses].has_init
    /\ sc_classes[NumClasses - 1].has_init
    /\ sc_classes[NumClasses - 1].super_calls = 2
    /\ EventCount("user_enter", NumClasses - 2, Len(sc_log)) = 2

\* the compilations of the log
Compilations == {i \in 1..Len(sc_log) : sc_log[i].ev = "compile"}

\* the initializer of class c (defined by it or inherited) has returned at
\* least once before entry i of the log and is not running at entry i
InitReturnedBefore(c, i) ==
    LET entered == EventCount("user_enter", c, i) + EventCount("inherited_enter", c, i)
        returned == EventCount("init_return", c, i)
    IN  returned > 0 /\ entered = returned + EventCount("raise", c, i)

\* no stub is compiled before the initializer of its class has returned,
\* and each is compiled with its own resolver
CompiledAfterInit ==
    \A i \in Compilations :
        /\ InitReturnedBefore(sc_log[i].cls, i)
        /\ sc_log[i].rcb = [cls |-> sc_log[i].cls, name |-> sc_log[i].name]

\* every stub of class c has been compiled
StubsCompiled(c) ==
    \A n \in sc_classes[c].stubs :
        \E i \in Compilations : sc_log[i].cls = c /\ sc_log[i].name = n

\* the initializer of class c has run for the instance
InitRan(c) == \E i \in 1..Len(sc_log) : sc_log[i].cls = c /\ sc_log[i].ev = "init_return"

\* C14 as stated: no stub is compiled before the initializer has returned,
\* each is compiled with its own resolver, and once the instance is
\* constructed this has happened for the stubs of every class of the chain
C14_EveryStubOfChainCompiled ==
    /\ CompiledAfterInit
    /\ Constructed => \A c \in 0..sc_type : StubsCompiled(c)

\* C14: the same, for the stubs of every class of the chain whose
\* initializer has run for the instance
C14_EveryStubOfRunInitCompiled ==
    /\ CompiledAfterInit
    /\ Constructed => \A c \in 0..sc_type : InitRan(c) => StubsCompiled(c)

\* both classes declare two stubs, the initializer of the last class calls
\* the base initializer, and all four are compiled
C14_Witness ==
    /\ Constructed
    /\ sc_type = NumClasses
    /\ \A c \in 1..NumClasses : sc_classes[c].stubs = StubNames
    /\ sc_classes[NumClasses].has_init
    /\ sc_classes[NumClasses].super_calls = 1
    /\ Cardinality(Compilations) >= 2 * Cardinality(StubNames)
    /\ sc_methods["f"].rcb = [cls |-> NumClasses, name |-> "f"]

(***************************************************************************)
(* Claims about the three views (SpecViews)                                *)
(***************************************************************************)
\* the latest operation was op, on a view whose owner was gone
AfterDeath(op) == vw_last.op = op /\ ~vw_last.before.alive

\* C15 as stated: lookup, contains-check, iteration and registration on
\* each of the three views fail with a lifecycle error once the owning
\* module has been destroyed
C15_AccessAfterDeathFails ==
    \A op \in {"getitem", "contains", "items", "setitem"} :
        AfterDeath(op) => vw_last.r.outcome = "LifecycleViolation"

\* a name is present in a view of the storage st
PresentIn(st, view, k) ==
    CASE view = "modules" -> Has(st.py, k)
      [] view = "parameters" ->
            \E i \in 1..Len(st.params) : st.params[i].k = k /\ ~st.params[i].is_buffer
      [] view = "buffers" ->
            \E i \in 1..Len(st.params) : st.params[i].k = k /\ st.params[i].is_buffer

\* the latest operation was a lookup on a view of a live module of a name
\* that was absent from the view
AbsentLookup ==
    /\ vw_last.op = "getitem"
    /\ vw_last.before.alive
    /\ ~PresentIn(vw_last.before, vw_last.view, vw_last.k)

\* C16: a lookup of a name that is absent from a view of a live module
\* fails with a lookup error and changes nothing; a name registered as a
\* buffer only is absent from the parameter view, and one registered as a
\* parameter only is absent from the buffer view
C16_AbsentLookupFails ==
    AbsentLookup =>
        /\ vw_last.r.outcome = "KeyError"
        /\ vw_last.r.st = vw_last.before
        /\ ViewCurrent = vw_last.before

\* a lookup in the parameter view of a name that is registered as a buffer
C16_Witness ==
    /\ AbsentLookup
    /\ vw_last.view = "parameters"
    /\ \E i \in 1..Len(vw_params) : vw_params[i].k = vw_last.k /\ vw_params[i].is_buffer

\* C17: a deletion from any of the three views is rejected with an error,
\* for present and absent names, and leaves the views and the native
\* storage as they were
C17_DeleteRejected ==
    vw_last.op = "delitem" =>
        /\ vw_last.r.outcome = "RuntimeError"
        /\ ViewCurrent = vw_last.before

\* a deletion of a name that is present in the buffer view, beside a
\* submodule and a parameter
C17_Witness ==
    /\ vw_last.op = "delitem"
    /\ vw_last.view = "buffers"
    /\ PresentIn(vw_last.before, "buffers", vw_last.k)
    /\ vw_python # <<>>
    /\ \E k \in ParamNames : PresentIn(ViewCurrent, "parameters", k)

(***************************************************************************)
(* Claims about the trace of a module tree (SpecTraceCall)                 *)
(***************************************************************************)
\* the tree has a structural error: a module with hooks or an aliased tensor
StructuralError ==
    LET w == Walk(tm_orig, "root")
    IN  Aliased(w) \/ \E i \in 1..Len(w) : HooksAt(w, i)

Idle == \A t \in Contexts : tracing_state[t] = NoSession /\ live[t] = {}

\* C18: the trace of a module tree in which a module carries hooks or a
\* parameter or buffer is aliased raises during the construction of the
\* compiled module; no capture session is begun for the call and the
\* session state is Idle throughout
C18_StructuralErrorsFailFast ==
    StructuralError =>
        /\ Idle
        /\ tc_sessions = {}
        /\ next_session = 1
        /\ tc_pc \in {"construct", "raised"}
        /\ tc_pc = "raised" =>
              /\ tm_result.done
              /\ tc_error = tm_result.err
              /\ tc_error \in {"AliasingViolation", "HookedModuleUnsupported"}

\* a tree without hooks whose last module holds one tensor as a parameter
\* and as a buffer: the construction has raised
C18_Witness ==
    /\ tc_pc = "raised"
    /\ tc_error = "AliasingViolation"
    /\ tm_orig.hooks = {}
    /\ tm_orig.entries = <<[mod |-> "b", buffer |-> FALSE, tensor |-> 1],
                           [mod |-> "b", buffer |-> TRUE, tensor |-> 1]>>

(***************************************************************************)
(* Claims about the constant names of a class (SpecClassDef)               *)
(***************************************************************************)
RECURSIVE AncestorsOf(_)
\* the classes c is derived from, c itself included
AncestorsOf(c) ==
    {c} \cup UNION {AncestorsOf(ClassDef(cd_classes, c).bases[i]) :
                       i \in 1..Len(ClassDef(cd_classes, c).bases)}

\* C19 as stated: the constant-name set of a class contains what the class
\* and every one of its ancestors declare, so it grows down every chain and
\* a declaration in a subclass removes no inherited name
C19_ConstantsSetIsUnion ==
    \A c \in 1..Len(cd_classes) :
        \A a \in AncestorsOf(c) :
            /\ ClassDef(cd_classes, a).constants \subseteq cd_classes[c].constants_set
            /\ ClassDef(cd_classes, a).constants_set \subseteq cd_classes[c].constants_set

(***************************************************************************)
(* Claims about the builtin table (SpecBuiltin)                            *)
(***************************************************************************)
\* C20: the builtin table is append-only: after any lookups and
\* registrations every identity that was ever in the table is still in it,
\* and a lookup in a populated table leaves the table as it is
C20_AppendOnly ==
    /\ bt_ever \subseteq InTable(bt_table)
    /\ (bt_last.op = "find" /\ bt_last.before.built) => bt_table = bt_last.before

\* a callable of neither module was registered, and a later lookup of it in
\* the populated table finds the name it was registered with
C20_Witness ==
    /\ bt_last.op = "find"
    /\ bt_last.before.built
    /\ bt_last.fn = NumCallables
    /\ bt_last.name = "my::op"
    /\ InTable(bt_table) = Callables

\* C21: after _register_builtin(fn, op) a lookup of fn returns op, also when
\* the registration was the first operation on the table (the population
\* runs before the item is stored and does not replace it), and a lookup in
\* a populated table does not populate it again
C21_LookupReturnsRegistered ==
    /\ \A fn \in Callables :
          bt_explicit[fn] # NoBuiltin =>
              /\ bt_table.built
              /\ bt_table.entries[fn] = bt_explicit[fn]
    /\ bt_last.op = "find" =>
          /\ bt_explicit[bt_last.fn] # NoBuiltin => bt_last.name = bt_explicit[bt_last.fn]
          /\ bt_last.before.built => bt_table = bt_last.before

\* a member of torch was registered under another name while the table was
\* not yet populated, and a lookup in the populated table returns that name
C21_Witness ==
    /\ bt_last.op = "find"
    /\ bt_last.before.built
    /\ bt_last.fn = 1
    /\ bt_first = "register"
    /\ bt_explicit = [c \in Callables |-> IF c = 1 THEN "my::op" ELSE NoBuiltin]
    /\ bt_last.name = "my::op"
    /\ bt_table.entries[2] = "aten::relu"

(***************************************************************************)
(* Claims about the capture sessions of several contexts (SpecCapture)     *)
(***************************************************************************)
\* a step that is not a step of context t
OtherContextSteps(t) == stack'[t] = stack[t]

\* the latest call of forward in context t failed to begin
BeginFailed(t) == last_call[t].result = "raised" /\ ~last_call[t].began

\* C22: the session state is per context: no session belongs to two
\* contexts, a begin fails only when the calling context has a session of
\* its own that is Capturing, whatever the other contexts are doing, and a
\* step of one context (begin, commit, abandon) leaves the tracing state,
\* the session and the call record of every other context as they are
C22_SessionPerContext ==
    /\ [](\A t \in Contexts :
            /\ \A u \in Contexts \ {t} : live[t] \cap live[u] = {}
            /\ BeginFailed(t) => GetTracingState(tracing_state, t) # NoSession)
    /\ [][\A t \in Contexts :
            OtherContextSteps(t) =>
                /\ tracing_state'[t] = tracing_state[t]
                /\ live'[t] = live[t]
                /\ last_call'[t] = last_call[t]]_vars

\* one context began a session while another was Capturing and has
\* committed it, and the other context's session is Capturing still
C22_Witness ==
    \E t \in Contexts, u \in Contexts :
        /\ t # u
        /\ last_call[t].committed
        /\ stack[u] # <<>>
        /\ Top(u).began
        /\ Top(u).pc = "body"
        /\ tracing_state[u] = Top(u).sid
        /\ last_call[t].sid > Top(u).sid
        /\ tracing_state[t] = NoSession

(***************************************************************************)
(* Claims about the entries of a traced module (SpecTraced)                *)
(***************************************************************************)
\* the names and tensors of orig._parameters (or orig._buffers) of a module,
\* and those among them that hold a tensor
OrigNamed(mod, buffer) ==
    LET ts == TensorsOf(tm_orig.entries, 1, mod, buffer)
    IN  {<<i, ts[i]>> : i \in 1..Len(ts)}

OrigNamedTensors(mod, buffer) == {e \in OrigNamed(mod, buffer) : e[2] # NoTensor}

\* the names and tensors of self._parameters (or self._buffers) of the
\* traced module built from a module
TracedNamed(mod, buffer) ==
    {<<tm_result.regs[i].name, tm_result.regs[i].tensor>> :
        i \in {j \in 1..Len(tm_result.regs) :
                  /\ tm_result.regs[j].mod = mod
                  /\ tm_result.regs[j].buffer = buffer}}

\* the names of orig._modules with the module each holds, and the names of
\* self._modules with the module each was built from
OrigSubmodules(mod) ==
    {<<i, tm_orig.children[mod][i]>> : i \in 1..Len(tm_orig.children[mod])}

TracedSubmoduleNames(mod) ==
    {<<tm_result.subs[i].name, tm_result.subs[i].orig>> :
        i \in {j \in 1..Len(tm_result.subs) : tm_result.subs[j].mod = mod}}

Returned == tm_result.done /\ tm_result.err = "none"

\* C23 (as stated): at every level of the tree the traced module has the
\* submodule names, the parameter names and the buffer names of the
\* original, and every entry refers to the tensor the original's refers to.
C23_SameEntryNames ==
    Returned =>
        \A mod \in Modules :
            /\ TracedSubmoduleNames(mod) = OrigSubmodules(mod)
            /\ \A buffer \in BOOLEAN :
                  TracedNamed(mod, buffer) = OrigNamed(mod, buffer)

\* C23 (amended): the same, for the parameter and buffer entries that hold
\* a tensor: an entry of the original that holds None has no counterpart
\* in the traced module
C23_SameTensorEntries ==
    Returned =>
        \A mod \in Modules :
            /\ TracedSubmoduleNames(mod) = OrigSubmodules(mod)
            /\ \A buffer \in BOOLEAN :
                  TracedNamed(mod, buffer) = OrigNamedTensors(mod, buffer)

\* a tree with a parameter in one module and a buffer in a submodule below
\* it was traced
C23_Witness ==
    /\ Returned
    /\ \E mod \in Modules, sub \in Modules :
          /\ mod # sub
          /\ \E i \in 1..Len(tm_orig.children[mod]) : tm_orig.children[mod][i] = sub
          /\ TracedNamed(mod, FALSE) # {}
          /\ TracedNamed(sub, TRUE) # {}

(***************************************************************************)
(* Claims about scope (SpecScope)                                          *)
(***************************************************************************)
RECURSIVE OpenScopes(_, _)
\* the names of the with-blocks in progress that read session s on entry,
\* outermost first
OpenScopes(frames, s) ==
    IF frames = <<>> THEN <<>>
    ELSE IF Head(frames).state = s
      THEN <<Head(frames).name>> \o OpenScopes(Tail(frames), s)
      ELSE OpenScopes(Tail(frames), s)

\* C24: pushes and pops of scopes are paired: a with-block that was entered
\* while a session was active leaves the stack of scopes of that session as
\* it found it, whether its body returned or raised and however the blocks
\* are nested (the stack of a session holds just the names of the blocks in
\* progress that were entered in it); a with-block that was entered while no
\* session was active neither pushes nor pops
C24_ScopeBalanced ==
    /\ sp_last.used =>
          IF sp_last.state # NoSession
            THEN /\ sp_last.pushed
                 /\ sp_last.popped
                 /\ sp_last.after = sp_last.before
            ELSE ~sp_last.pushed /\ ~sp_last.popped
    /\ \A s \in ScopeSessions : sp_scopes[s] = OpenScopes(sp_frames, s)
    /\ \A i \in 1..Len(sp_frames) :
          sp_frames[i].state # NoSession =>
              /\ Len(sp_scopes[sp_frames[i].state]) > Len(sp_frames[i].before)
              /\ SubSeq(sp_scopes[sp_frames[i].state], 1, Len(sp_frames[i].before))
                    = sp_frames[i].before

\* a with-block nested in another one of the same session was left by an
\* exception that is no Exception, and the outer block is in progress
C24_Witness ==
    /\ sp_last.used
    /\ sp_last.state # NoSession
    /\ sp_last.raised = "KeyboardInterrupt"
    /\ sp_last.before # <<>>
    /\ sp_frames # <<>>
    /\ ScopeTop.state = sp_last.state
    /\ ScopeTop.pending = "KeyboardInterrupt"

(***************************************************************************)
(* Claims about commit and abandon in forward (SpecCapture)                *)
(***************************************************************************)
\* the step is forward's call of _tracer_abandon in context t (line 128)
AbandonInvoked(t) ==
    /\ stack[t] # <<>>
    /\ Top(t).pc = "handler"
    /\ stack'[t] # stack[t]

\* the step is forward's call of _tracer_exit in context t (line 126)
CommitInvoked(t) ==
    /\ stack[t] # <<>>
    /\ Top(t).pc = "exit"
    /\ stack'[t] # stack[t]

\* the step ends a call of forward in context t whose begin has failed
EndsWithoutBegin(t) ==
    /\ last_call'[t] # last_call[t]
    /\ last_call'[t].result # "none"
    /\ ~last_call'[t].began

\* C25: forward invokes commit and abandon only on the session it has begun
\* itself and while that session is Capturing: abandon is not invoked after
\* a commit that finalized the session (a commit that raises has not), and
\* a call whose begin failed invokes neither and leaves the tracing state
\* as it is
C25_CommitAbandonOnlyWhileCapturing ==
    [][\A t \in Contexts :
          /\ (AbandonInvoked(t) \/ CommitInvoked(t)) =>
                /\ Top(t).began
                /\ tracing_state[t] # NoSession
                /\ tracing_state[t] = Top(t).sid
                /\ live[t] = {Top(t).sid}
          /\ EndsWithoutBegin(t) =>
                /\ ~last_call'[t].abandoned
                /\ ~last_call'[t].committed
                /\ tracing_state' = tracing_state]_vars

\* the commit step of a call has raised and the handler of the call has
\* abandoned the session, which was Capturing until then
C25_Witness ==
    \E t \in Contexts :
        /\ last_call[t].began
        /\ last_call[t].raised = "ExitError"
        /\ last_call[t].abandoned
        /\ ~last_call[t].committed
        /\ tracing_state[t] = NoSession

(***************************************************************************)
(* Claims about the end of a capture (SpecCaptureFair)                     *)
(***************************************************************************)
\* C26 (as stated): a capture that has begun leaves Capturing: when the
\* traced body terminates, by returning or by raising an exception of any
\* kind, the session is committed or abandoned and the context is Idle
\* again.
C26_CaptureEventuallyEnds ==
    \A t \in Contexts :
        (tracing_state[t] # NoSession) ~> (tracing_state[t] = NoSession)

(***************************************************************************)
(* Claims about the parameter view and the buffer view (SpecViews)         *)
(***************************************************************************)
\* the names that iterating over a view yields now
Listed(view) ==
    LET r == ViewItems(ViewCurrent, view)
    IN  {r.listing[i] : i \in 1..Len(r.listing)}

\* the other one of the two views of the parameter storage
OtherView(view) == IF view = "parameters" THEN "buffers" ELSE "parameters"

\* C27: the parameter view and the buffer view partition the native
\* parameter storage of a live module: after any registrations a name is
\* listed by the view it was last registered through and not by the other
\* one, with the tensor of that registration; a name that was never
\* registered is listed by neither; the two listings are disjoint and
\* together give the names in native storage, and an iteration yields what
\* native storage holds at that time
C27_ViewsPartitionStorage ==
    /\ vw_alive =>
          /\ \A k \in ParamNames :
                IF vw_via[k] = NotRegistered
                  THEN k \notin Listed("parameters") \cup Listed("buffers")
                  ELSE /\ k \in Listed(vw_via[k].view)
                       /\ k \notin Listed(OtherView(vw_via[k].view))
                       /\ ViewGetItem(ViewCurrent, vw_via[k].view, k).tensor = vw_via[k].v
          /\ Listed("parameters") \cap Listed("buffers") = {}
          /\ Listed("parameters") \cup Listed("buffers")
                = {vw_params[i].k : i \in 1..Len(vw_params)}
    /\ (vw_last.op = "items" /\ vw_last.view # "modules" /\ vw_last.r.outcome = "ok") =>
          vw_last.r.listing = NamesOfKind(vw_last.before.params, vw_last.view = "buffers")

\* one name was registered through each view, the name that is now a buffer
\* was a parameter before, and the parameter view was just iterated
C27_Witness ==
    /\ vw_alive
    /\ vw_last.op = "items"
    /\ vw_last.view = "parameters"
    /\ vw_via["w"].view = "buffers"
    /\ vw_via["b"].view = "parameters"
    /\ vw_last.r.listing = <<"b">>
    /\ Keys(vw_params) = <<"w", "b">>
    /\ vw_via["w"].v # vw_via["b"].v

(***************************************************************************)
(* Claims about the shadow cache of the submodule view (SpecModules)       *)
(***************************************************************************)
\* the names under which the cache holds a compiled module
CachedCompiled == {k \in ModNames : Has(md_python, k) /\ Get(md_python, k).script}

\* the names in the native storage of the owner
NativeNames == {md_native[i].k : i \in 1..Len(md_native)}

\* C28: the shadow cache of the submodule view is in sync with the native
\* storage of a live owner: after any registrations, those that the view
\* or the native storage refused included, the names in native storage are
\* the names under which the cache holds a compiled module, and the cached
\* object under such a name is the one in native storage; a registration
\* that fails changes neither store
C28_CacheInSync ==
    /\ md_alive =>
          /\ NativeNames = CachedCompiled
          /\ \A k \in CachedCompiled : Get(md_python, k) = Get(md_native, k)
    /\ (md_last.op = "setitem" /\ md_last.outcome # "ok") => ~md_last.changed

\* the native storage has refused a compiled module under a name that is in
\* neither store, while another compiled module is in both stores and a
\* Python-only module is not
C28_Witness ==
    /\ md_alive
    /\ md_last.op = "setitem"
    /\ md_last.outcome = "NativeError"
    /\ md_last.v.script
    /\ ~Has(md_python, md_last.k)
    /\ CachedCompiled # {}

(***************************************************************************)
(* Claims about the stubs of a class (SpecStubs)                           *)
(***************************************************************************)
\* the instances of class c
InstancesOf(c) == {i \in 1..Len(sq_instances) : sq_instances[i].cls = c}

\* the names of the stubs in the list `methods` of class c
QueuedStubs(c) == {sq_classes[c].methods[i].name : i \in 1..Len(sq_classes[c].methods)}

\* C29 (as stated): a stub is consumed once per class and then discarded:
\* it is compiled for the first instance of its class and not again, and
\* it is not in the list of the class any more once an instance exists.
C29_StubConsumedOncePerClass ==
    \A c \in 1..Len(sq_classes) :
        /\ \A n \in StubNames : sq_compiles[c][n] <= 1
        /\ InstancesOf(c) # {} => sq_classes[c].methods = <<>>

\* C29 (amended): a stub leaves the attributes of its class when the class
\* is defined and stays in the list of the class for good; it is consumed
\* once per instance: every construction of an instance of the class
\* compiles every stub of the list once, with its own resolver, and
\* registers it with that instance
C29_StubConsumedOncePerInstance ==
    \A c \in 1..Len(sq_classes) :
        /\ \A n \in StubNames :
              /\ sq_classes[c].attrs[n] # "stub"
              /\ sq_compiles[c][n] =
                    IF n \in QueuedStubs(c) THEN Cardinality(InstancesOf(c)) ELSE 0
        /\ \A i \in InstancesOf(c) : \A n \in StubNames :
              sq_instances[i].methods[n] =
                  IF n \in QueuedStubs(c)
                    THEN [def_ |-> ScriptMethodStub(c, n).def_,
                          rcb |-> ScriptMethodStub(c, n).resolution_callback]
                    ELSE NoMethod

\* two instances of one class that declares two stubs have been constructed
C29_Witness ==
    \E c \in 1..Len(sq_classes) :
        /\ QueuedStubs(c) = StubNames
        /\ Cardinality(InstancesOf(c)) = 2
        /\ \A n \in StubNames : sq_compiles[c][n] = 2

(***************************************************************************)
(* Claims about the message of a verification error (SpecVerify)           *)
(***************************************************************************)
\* a pair of tensor constants at the same position differs beyond the default
\* tolerance, the nodes before it being of the same kinds in both graphs
ConstantsDifferBeforeDivergence(m, c) ==
    \E i \in 1..Min(Len(m.nodes), Len(c.nodes)) :
        /\ \A j \in 1..i : m.nodes[j].kind = c.nodes[j].kind
        /\ m.nodes[i].kind = "prim::Constant"
        /\ m.nodes[i].valkind = "t"
        /\ c.nodes[i].valkind = "t"
        /\ Beyond(m.nodes[i].value, c.nodes[i].value, DefaultRTolInv)

\* C30: a verification error carries every diagnostic there is for the two
\* graphs: the section of the graph diff, of the nondeterminism warning and of
\* the tensor constants is in the raised error exactly when that diagnostic
\* is not empty, whatever the other two are
C30_AllDiagnosticsCarried ==
    vf_result.status = "TracingCheckError"
        => /\ "graph_diff" \in vf_result.sections
                <=> StructureDiffers(vf_module, vf_check)
           /\ "nondeterm_warning" \in vf_result.sections
                <=> HasNondeterministicNode(vf_module)
           /\ "tensor_compare" \in vf_result.sections
                <=> ConstantsDifferBeforeDivergence(vf_module, vf_check)

\* C30 witness: an error was raised for two graphs of the same structure, the
\* trace having a nondeterministic node and a tensor constant the re-trace
\* holds with another value: the message has both of these sections and no
\* section for a graph diff
C30_Witness ==
    /\ vf_result.status = "TracingCheckError"
    /\ ~StructureDiffers(vf_module, vf_check)
    /\ HasNondeterministicNode(vf_module)
    /\ ConstantsDifferBeforeDivergence(vf_module, vf_check)
    /\ vf_result.sections \ {"extra_msg"} = {"nondeterm_warning", "tensor_compare"}

(***************************************************************************)
(* Claims about the table of builtin operators under threads               *)
(* (SpecBuiltinThreads)                                                    *)
(***************************************************************************)
\* every callable of the trusted namespaces has its entry
Populated(entries) == \A c \in TrustedCallables : entries[c] # NoBuiltin

\* the table is populated once, no thread is handed a table that is not yet
\* populated, and no lookup of a trusted callable returns not-found
PopulatedOnceAndWhole ==
    /\ br_pops <= 1
    /\ \A t \in BuiltinThreads : br_pc[t] = "use" => Populated(br_dicts[br_ref[t]])
    /\ ~br_missed

\* C31 as stated: the table is populated exactly once also when threads make
\* their first lookups concurrently, and no lookup or registration observes
\* a table that is populated in part
C31_PopulatedOnceUnderThreads == PopulatedOnceAndWhole

\* C31 amended: the same, for the runs in which the population has ended
\* before a call begins beside another
C31_PopulatedOnceWhenEarly == br_solo => PopulatedOnceAndWhole

\* C31 witness: the table having been populated by a call that ran alone,
\* both threads hold the table at once, one for a lookup of a trusted
\* callable
C31_Witness ==
    /\ br_solo
    /\ br_pops = 1
    /\ \A t \in BuiltinThreads : br_pc[t] = "use"
    /\ \E t \in BuiltinThreads :
          br_call[t].op = "find" /\ br_call[t].fn \in TrustedCallables

(***************************************************************************)
(* Claims about the re-captures of a check (SpecCheckLoop)                 *)
(***************************************************************************)
\* the input sets a checked call verifies: the held-out sets, or the example
\* inputs alone when none are given
SetsToVerify ==
    IF ~cl_args.check_trace THEN <<>>
    ELSE IF cl_args.check_inputs = NoCheckInputs THEN <<ExampleInputs>>
    ELSE cl_args.check_inputs.sets

\* C32: verifying n input sets makes n re-captures at most, every re-capture
\* is a call of trace with the check off, so that no check runs inside a
\* check, the sets are examined in order up to the first that raises a
\* verification error, and without held-out inputs the example inputs are
\* the one set
C32_CheckTerminatesWithoutRecursion ==
    /\ cl_recaptures <= Len(SetsToVerify)
    /\ Len(cl_stack) <= 2
    /\ \A k \in 2..Len(cl_stack) : ~cl_stack[k].args.check_trace
    /\ Len(cl_examined) <= cl_recaptures
    /\ cl_examined = SubSeq(SetsToVerify, 1, Len(cl_examined))
    /\ cl_result = "TracingCheckError"
          => cl_stack = <<>> /\ Len(cl_examined) = cl_recaptures
    /\ cl_result = "module"
          => cl_stack = <<>> /\ cl_examined = SetsToVerify

\* C32 witness: of two held-out sets the first raised a verification error:
\* one re-capture was made and the second set was not examined
C32_Witness ==
    /\ cl_result = "TracingCheckError"
    /\ Len(SetsToVerify) = 2
    /\ cl_recaptures = 1
    /\ cl_examined = <<SetsToVerify[1]>>

\* C32, the example inputs as the one set: a checked call without held-out
\* inputs returned its module after one re-capture on the example inputs
C32_ExampleInputsChecked ==
    /\ cl_result = "module"
    /\ cl_args.check_trace
    /\ cl_args.check_inputs = NoCheckInputs
    /\ cl_recaptures = 1
    /\ cl_examined = <<ExampleInputs>>

(***************************************************************************)
(* Claims about the number of outputs that a check compares (SpecVerify)   *)
(***************************************************************************)
\* C33: a check that passes has compared outputs of the same number: the
\* comparison with the callable goes on to the re-trace only if the callable
\* gave as many tensors as the traced module, and a check that passed its
\* last input set had as many tensors from the re-trace as from the traced
\* module
C33_SameNumberOfOutputs ==
    /\ [][(vf_pc = "compare_fn" /\ vf_pc' = "run_check")
            => Len(vf_traced_outs) = Len(vf_fn_outs)]_vars
    /\ [](vf_result.status = "passed"
            => Len(vf_traced_outs) = Len(vf_check_outs))

(***************************************************************************)
(* Claims about initializers that raise (SpecScript)                       *)
(***************************************************************************)
\* an exception leaves the initializer of the class on top of the stack
InitRaisesStep ==
    /\ Len(sc_log') = Len(sc_log) + 1
    /\ sc_log'[Len(sc_log')].ev = "raise"

\* C34: a call of an initializer that raises compiles and registers no stub
\* on the instance and hands the exception to its caller, and every
\* compilation of a stub comes right after a normal return of the
\* initializer of the stub's own class, or after the compilation of another
\* stub of that class that does
C34_RaisingInitRegistersNothing ==
    /\ [][InitRaisesStep
            => /\ sc_methods' = sc_methods
               /\ Len(sc_stack') = Len(sc_stack) - 1
               /\ sc_stack' # <<>>
                    => sc_stack'[Len(sc_stack')].pc \in {"exc_user", "exc_inherited"}]_vars
    /\ [](\A i \in Compilations :
             /\ i > 1
             /\ sc_log[i - 1].ev \in {"init_return", "compile"}
             /\ sc_log[i - 1].cls = sc_log[i].cls)

\* C34 witness: the initializer of the last class raised after the
\* initializer of its base class had returned: the stubs of the base class
\* are registered, the stubs of the last class are not, and the exception
\* has left the construction
C34_Witness ==
    /\ sc_stack = <<>>
    /\ sc_log # <<>>
    /\ sc_log[Len(sc_log)] = ScriptEvent("raise", NumClasses)
    /\ sc_type = NumClasses
    /\ \A c \in 1..NumClasses : sc_classes[c].stubs = {StubOrder[c]}
    /\ StubsCompiled(NumClasses - 1)
    /\ ~\E i \in Compilations : sc_log[i].cls = NumClasses
    /\ sc_methods[StubOrder[NumClasses]] = NoMethod

(***************************************************************************)
(* Claims about the freeze of a traced module (SpecFreeze)                 *)
(***************************************************************************)
\* the latest assignment was made by the program, to the constructed module
ProgramAssigned == fz_last.op = "program"

\* the value is what the module holds under the name
Holds(mod, attr, value) ==
    IF IsModuleValue(value)
      THEN Has(mod.modules, attr) /\ Get(mod.modules, attr) = value.obj
      ELSE mod.dict[attr] = value.plain

\* the module is frozen from the end of its construction on and not before,
\* an assignment of the program to an attribute that does not exist fails
\* and leaves the module unchanged, and __init__ has set a new attribute
FrozenRefusesNew ==
    /\ fz_pc = "constructed" => fz_mod.frozen
    /\ fz_pc \in {"name", "training", "hooks", "freeze", "failed"} => ~fz_mod.frozen
    /\ (ProgramAssigned /\ ~fz_last.existed)
          => fz_last.outcome = "FrozenError" /\ ~fz_last.changed
    /\ (fz_last.op = "init" /\ ~fz_last.existed)
          => /\ fz_last.outcome = "ok"
             /\ Holds(fz_mod, fz_last.attr, fz_last.value)

\* C35 as stated: the module is frozen once constructed and refuses new
\* attributes, and every assignment to an attribute that exists succeeds
C35_ExistingAlwaysAssignable ==
    /\ FrozenRefusesNew
    /\ (ProgramAssigned /\ fz_last.existed)
          => /\ fz_last.outcome = "ok"
             /\ Holds(fz_mod, fz_last.attr, fz_last.value)

\* C35 amended: an assignment to an attribute that exists is not refused by
\* the freeze: it succeeds unless the name is that of a submodule, which a
\* ScriptModule does not let be re-assigned, the module staying as it was
C35_ExistingHandedOn ==
    /\ FrozenRefusesNew
    /\ (ProgramAssigned /\ fz_last.existed)
          => IF fz_last.submodule
               THEN /\ fz_last.outcome = "ReassignModule"
                    /\ ~fz_last.changed
               ELSE /\ fz_last.outcome = "ok"
                    /\ Holds(fz_mod, fz_last.attr, fz_last.value)

\* C35 witness: on a constructed module with a submodule, the program was
\* refused an attribute that did not exist
C35_Witness ==
    /\ fz_pc = "constructed"
    /\ Has(fz_mod.modules, "child")
    /\ ProgramAssigned
    /\ fz_last.attr = "note"
    /\ fz_last.outcome = "FrozenError"
    /\ fz_mod.dict["_name"] # Absent

\* an assignment to an attribute that existed went through after the freeze
\* and changed the module
C35_ExistingAssigned ==
    /\ ProgramAssigned
    /\ fz_last.frozen
    /\ fz_last.attr = "training"
    /\ fz_last.outcome = "ok"
    /\ fz_last.changed

(***************************************************************************)
(* Claims about the suspension of a capture (SpecDisable)                  *)
(***************************************************************************)
\* inside a with-block the tracing state is empty
EmptyInside == dt_frames # <<>> => dt_state = 0

\* C36 as stated: inside the context the tracing state is empty, and leaving
\* it, normally or by an exception, sets the tracing state back to what it
\* was at entry, also in nested uses
C36_StateRestored ==
    /\ EmptyInside
    /\ dt_last.op = "exit" => dt_last.restored = dt_last.entry

\* C36 amended: the same, for the with-blocks whose context object is not
\* entered again while they are in progress
C36_StateRestoredPerObject ==
    /\ EmptyInside
    /\ (dt_last.op = "exit" /\ ~dt_last.reentered)
          => dt_last.restored = dt_last.entry

\* C36 witness: a with-block that was entered during a capture and had
\* another with-block nested in it, with an object of its own, was left by
\* an exception, and the capture is current again
C36_Witness ==
    /\ dt_frames = <<>>
    /\ dt_last.op = "exit"
    /\ dt_last.nested
    /\ ~dt_last.reentered
    /\ dt_last.raised
    /\ dt_last.entry # 0
    /\ dt_state = dt_last.entry

(***************************************************************************)
(* Claims about the module state of a capture (SpecUnique)                 *)
(***************************************************************************)
\* the i-th entry of the state dictionary is the first one of its tensor
FirstOfItsTensor(i) ==
    \A h \in 1..(i - 1) : us_dict[h].id # us_dict[i].id

\* the positions in the state dictionary of the entries that are kept
KeptPositions == {i \in 1..Len(us_dict) : FirstOfItsTensor(i)}

\* C37: the module state of a capture has no tensor twice: the filtered
\* dictionary has, for every tensor, the first entry of the state dictionary
\* with it and no other entry, in the order of the state dictionary
C37_ModuleStateUnique ==
    /\ us_pc # "start" =>
          /\ Len(us_filtered) = Cardinality(KeptPositions)
          /\ \A j \in 1..Len(us_filtered) :
                \E i \in KeptPositions :
                   /\ us_filtered[j] = us_dict[i]
                   /\ Cardinality({h \in KeptPositions : h < i}) = j - 1
    /\ us_pc = "listed" =>
          /\ Len(us_state) = Len(us_filtered)
          /\ \A j \in 1..Len(us_state) : us_state[j] = us_filtered[j].id
          /\ \A i, j \in 1..Len(us_state) : us_state[i] = us_state[j] => i = j

\* C37 witness: a tensor is in the state dictionary under its first and its
\* third name, another one between them, and the module state is listed
C37_Witness ==
    /\ us_pc = "listed"
    /\ Len(us_dict) = 3
    /\ us_dict[1].id = us_dict[3].id
    /\ us_dict[2].id # us_dict[1].id
    /\ Len(us_state) = 2

=============================================================================
